---- MODULE Spec2Model ----
(***************************************************************************)
(* A model of the MALT parser integration of sparv-pipeline                *)
(* (sparv/modules/malt/malt.py): the engine process table, the             *)
(* process_dict session that callers pass from one maltparse call to the   *)
(* next, the chat-mode / block-mode choice, the chat-mode read loop, the   *)
(* pipes between maltparse and the engine, and concurrent maltparse calls. *)
(***************************************************************************)
EXTENDS Integers, Sequences, FiniteSets, TLC

VARIABLES
    procs,          \* engine process table: pid -> process record (Popen object)
    process_dict,   \* the session dict: [process: pid, restart: BOOLEAN]
    call,           \* what the most recent maltparse call did
    chat,           \* one chat-mode exchange: its units, the response, the result
    pipe,           \* the two pipes of one chat-mode exchange and both their ends
    wk,             \* concurrent maltparse calls: workers, their dicts and processes
    rows,           \* one maltparse call from the response to the written annotations
    words,          \* one annotate_words call (lexical_classes.py)
    doc,            \* one annotate_doc call (lexical_classes.py)
    cell,           \* one annotation value, written and read back
    kids,           \* one get_children call and the units maltparse submits
    req,            \* the request text of one maltparse call
    lexi,           \* a loaded lexicon shared by annotate calls
    imp,            \* one call of the plain-text importer
    sync,           \* one sync_cwb call (install_corpus.py)
    texts,          \* one annotate_doc call over the texts of a document
    boot            \* an engine, its warm-up and one chat-mode call, as texts

sessVars == <<procs, process_dict, call>>
utilVars == <<cell, kids, req, lexi, imp, sync, texts, boot>>
annVars == <<rows, words, doc, utilVars>>
vars == <<procs, process_dict, call, chat, pipe, wk, rows, words, doc, cell, kids, req, lexi, imp, sync, texts, boot>>

----------------------------------------------------------------------------
(* Constants of malt.py *)

RESTART_THRESHOLD_LENGTH == 64000

\* "\n" as one item of a byte stream; SENT_SEP = "\n\n", TOK_SEP = "\n"
NL == "NL"
SENT_SEP == <<NL, NL>>
TOK_SEP == <<NL>>

\* A well-formed response line (eight or more tab-separated columns, a
\* numeric head column) and an empty line, both without their final "\n".
TOKLINE == "T"
BLANK == "B"
\* What readline() returns at end of file (b""), and a marker for a readline()
\* that never returns because the engine sends nothing more.
EOF == "EOF"
HANG == "HANG"

----------------------------------------------------------------------------
(* Bounds *)

MaxProcs == 3       \* process objects alive at one time
MaxPayloads == 2    \* payloads written to one process
MaxSents == 1       \* sentences of a document (the orphan unit comes on top)
MaxUnitLen == 2     \* tokens of one sentence / orphan unit

Pids == 1..MaxProcs
\* Popen.returncode of a process that has not exited
None == -1000
\* exit codes an engine process can end with by itself
ExitCodes == {0, 1}
\* returncode after SIGKILL
KilledRC == -9

\* sentences, orphans = get_children(...); sentences.append(orphans):
\* a sequence of units, each given by its member count, the last the orphans
RECURSIVE SeqsOver(_, _)
SeqsOver(S, n) ==
    IF n = 0 THEN {<<>>}
    ELSE {Append(s, x) : s \in SeqsOver(S, n - 1), x \in S}

SeqsUpTo(S, lo, hi) == UNION {SeqsOver(S, n) : n \in lo..hi}

Units == SeqsUpTo(0..MaxUnitLen, 1, MaxSents + 1)

RECURSIVE SumSeq(_)
SumSeq(s) == IF s = <<>> THEN 0 ELSE Head(s) + SumSeq(Tail(s))

Min(a, b) == IF a < b THEN a ELSE b

----------------------------------------------------------------------------
(* Engine processes (subprocess.Popen objects) *)

\* a slot of the process table that no process has been spawned into
Unspawned ==
    [status |-> "unspawned", returncode |-> None,
     stdin_closed |-> FALSE, stdout_closed |-> FALSE,
     sent |-> <<>>, unread |-> <<>>, killed |-> FALSE, faulted |-> FALSE,
     by |-> "nobody"]

\* one process object for everybody instead of a new one
NewPid_shared(table) == 1

\* the lowest free slot of a process table
NewPid(table) == CHOOSE p \in DOMAIN table :
    /\ table[p].status = "unspawned"
    /\ \A q \in DOMAIN table : table[q].status = "unspawned" => p <= q

CanSpawn(table) == \E p \in DOMAIN table : table[p].status = "unspawned"

\* maltstart without its "if send_empty_sentence" block
maltstart_cold(send_empty_sentence, who) ==
    [status |-> "running", returncode |-> None,
     stdin_closed |-> FALSE, stdout_closed |-> FALSE,
     sent |-> <<>>, unread |-> <<>>, killed |-> FALSE, faulted |-> FALSE,
     by |-> who]

\* maltstart: start a malt process; with send_empty_sentence, write the
\* warm-up sentence "1\t.\t_\tMAD\tMAD\tMAD\n\n\n", flush, and read two lines
maltstart(send_empty_sentence, who) ==
    [status |-> "running", returncode |-> None,
     stdin_closed |-> FALSE, stdout_closed |-> FALSE,
     sent |-> IF send_empty_sentence THEN <<"warmup">> ELSE <<>>,
     unread |-> <<>>, killed |-> FALSE, faulted |-> FALSE, by |-> who]

\* Popen.poll(): None while the process runs, its exit code afterwards
poll(pr) == IF pr.status = "exited" THEN pr.returncode ELSE None

\* Python truth value of poll()'s result: None and 0 are false
Truthy(rc) == rc # None /\ rc # 0

\* "If process seems dead": process.stdin.closed or process.stdout.closed
\* or process.poll()
SeemsDead(pr) == pr.stdin_closed \/ pr.stdout_closed \/ Truthy(poll(pr))

\* util.system.kill_process(process)
kill_process(pr) ==
    [pr EXCEPT !.status = "exited",
               !.returncode = IF pr.status = "running" THEN KilledRC ELSE @,
               !.killed = TRUE]

\* a write and a read that leave the pipes open and the process running
communicate_open(pr, rc) == [pr EXCEPT !.sent = Append(@, "block")]

\* the first half of communicate(): write everything and close stdin
communicate_write(pr) ==
    [pr EXCEPT !.sent = Append(@, "block"), !.stdin_closed = TRUE]

\* the second half of communicate(): read stdout to end of file, close it,
\* and wait for the process to exit
communicate_wait(pr, rc) ==
    [pr EXCEPT !.stdout_closed = TRUE,
               !.unread = <<>>,
               !.status = "exited",
               !.returncode = IF pr.status = "running" THEN rc ELSE @]

\* process.communicate(stdin)
communicate(pr, rc) == communicate_wait(communicate_write(pr), rc)

\* the payloads written to a process so far
Payloads(pr) == Cardinality({i \in 1..Len(pr.sent) : pr.sent[i] # "warmup"})

\* stdin_fd.write(stdin + SENT_SEP); stdin_fd.flush()
chat_write(pr) == [pr EXCEPT !.sent = Append(@, "chat")]

----------------------------------------------------------------------------
(* The request payload and the mode choice *)

\* Bytes that conll_token and the two joins put around the annotation values:
\* per token str(nr) (one digit), five TAG_SEP and the lemma "_"; TOK_SEP
\* between the tokens of a sentence; SENT_SEP between sentences.
TokenFraming(n) == n * 7 + (IF n > 0 THEN n - 1 ELSE 0)

RECURSIVE UnitsFraming(_)
UnitsFraming(units) ==
    IF units = <<>> THEN 0
    ELSE TokenFraming(Head(units)) + UnitsFraming(Tail(units))

\* len(stdin): the framing plus the bytes of the forms, tags and features
StdinLen(units, content) ==
    UnitsFraming(units) + Len(SENT_SEP) * (Len(units) - 1) + content

\* Bytes of forms, tags and features of a document with these units: none
\* without tokens, else one byte per token or whatever brings the payload
\* to one byte below or exactly to the restart threshold.
Contents(units) ==
    IF SumSeq(units) = 0 THEN {0}
    ELSE {SumSeq(units)} \cup
         {RESTART_THRESHOLD_LENGTH + d
              - (UnitsFraming(units) + Len(SENT_SEP) * (Len(units) - 1)) :
          d \in {-1, 0}}

\* the threshold test off by one: a payload of exactly the threshold length chats
keep_process_le(len, hasDict) == len <= RESTART_THRESHOLD_LENGTH /\ hasDict

\* keep_process = len(stdin) < RESTART_THRESHOLD_LENGTH and process_dict is not None
keep_process(len, hasDict) == len < RESTART_THRESHOLD_LENGTH /\ hasDict

\* the flag without its negation
restart_flag_plain(keep) == keep

\* process_dict["restart"] = not keep_process
restart_flag(keep) == ~keep

----------------------------------------------------------------------------
(* The engine's response and the two ways of reading it *)

RECURSIVE Repeat(_, _)
Repeat(x, n) == IF n <= 0 THEN <<>> ELSE <<x>> \o Repeat(x, n - 1)

\* The response lines of an engine that answers with one group of lines per
\* entry of resp: resp[k] token lines and then an empty line.
RECURSIVE RespLines(_)
RespLines(resp) ==
    IF resp = <<>> THEN <<>>
    ELSE Repeat(TOKLINE, Head(resp)) \o <<BLANK>> \o RespLines(Tail(resp))

\* stdout_fd.readline() at position pos of the response: the next line, or,
\* past the last line, b"" if the engine has closed its output, else no return
readline(lines, pos, tail) ==
    IF pos <= Len(lines) THEN lines[pos]
    ELSE IF tail = "eof" THEN EOF ELSE HANG

\* the lines readline returns at positions pos .. pos + n - 1
ReadN(lines, pos, n, tail) == [j \in 1..n |-> readline(lines, pos + j - 1, tail)]

Hangs(got) == \E j \in 1..Len(got) : got[j] = HANG

\* the assert left out
terminator_any(line) == TRUE

\* assert line == b"\n"
terminator_ok(line) == line = BLANK

\* The chat-mode loop: for each unit read one line per member, then one more
\* line that must be b"\n". Gives the status ("ok", "fault" when the assert
\* fails, "hang" when a readline never returns), the lines kept per unit, and
\* the number of lines taken from the pipe.
RECURSIVE chat_read(_, _, _, _, _, _)
chat_read(units, lines, tail, k, pos, acc) ==
    IF k > Len(units)
    THEN [status |-> "ok", malt_sentences |-> acc, nread |-> pos - 1]
    ELSE LET malt_sent == ReadN(lines, pos, units[k], tail)
             line == readline(lines, pos + units[k], tail)
         IN  IF Hangs(malt_sent) \/ line = HANG
             THEN [status |-> "hang", malt_sentences |-> acc,
                   nread |-> Len(lines)]
             ELSE IF ~terminator_ok(line)
             THEN [status |-> "fault", malt_sentences |-> acc,
                   nread |-> pos + units[k]]
             ELSE chat_read(units, lines, tail, k + 1, pos + units[k] + 1,
                            Append(acc, malt_sent))

\* cols = malt_tok.split(TAG_SEP); cols[DEPREL_COLUMN]; int(cols[HEAD_COLUMN]):
\* works for a well-formed token line, raises for an empty line or b""
row_ok(malt_tok) == malt_tok = TOKLINE

\* for (sent, malt_sent) in zip(sentences, malt_sentences):
\*     for (token_index, malt_tok) in zip(sent, malt_sent): ...
\* no row raises
parse_ok(units, malt_sentences) ==
    \A k \in 1..Min(Len(units), Len(malt_sentences)) :
        \A j \in 1..Min(units[k], Len(malt_sentences[k])) :
            row_ok(malt_sentences[k][j])

\* the whole chat-mode branch followed by the parsing of the rows
chat_exchange(units, lines, tail) ==
    LET r == chat_read(units, lines, tail, 1, 1, <<>>)
    IN  IF r.status = "ok" /\ ~parse_ok(units, r.malt_sentences)
        THEN [r EXCEPT !.status = "fault"]
        ELSE r

\* the response as communicate() returns it: every line followed by "\n"
RECURSIVE Text(_)
Text(lines) ==
    IF lines = <<>> THEN <<>>
    ELSE (IF Head(lines) = BLANK THEN <<NL>> ELSE <<Head(lines), NL>>)
         \o Text(Tail(lines))

\* str.split(sep) from position i on, cur being the piece under construction
RECURSIVE SplitFrom(_, _, _, _)
SplitFrom(s, sep, i, cur) ==
    IF i > Len(s) THEN <<cur>>
    ELSE IF i + Len(sep) - 1 <= Len(s) /\ SubSeq(s, i, i + Len(sep) - 1) = sep
    THEN <<cur>> \o SplitFrom(s, sep, i + Len(sep), <<>>)
    ELSE SplitFrom(s, sep, i + 1, Append(cur, s[i]))

split(s, sep) == SplitFrom(s, sep, 1, <<>>)

\* a piece between two TOK_SEP as a line: one line's content, or empty
AsLine(piece) == IF piece = <<>> THEN BLANK ELSE piece[1]

\* malt_sentences = (malt_sent.split(TOK_SEP) for malt_sent in stdout.split(SENT_SEP))
block_sentences(stdout) ==
    LET sents == split(stdout, SENT_SEP)
    IN  [k \in 1..Len(sents) |->
            LET toks == split(sents[k], TOK_SEP)
            IN  [j \in 1..Len(toks) |-> AsLine(toks[j])]]

\* the whole block-mode branch followed by the parsing of the rows
block_exchange(units, lines) ==
    LET ms == block_sentences(Text(lines))
    IN  [status |-> IF parse_ok(units, ms) THEN "ok" ELSE "fault",
         malt_sentences |-> ms, nread |-> Len(lines)]

----------------------------------------------------------------------------
(* maltparse, called again and again by one worker; a call is given the    *)
(* worker's process_dict or no process_dict at all                         *)

\* how the engine answers a payload with these units: one group of lines per
\* unit with as many lines as the unit has members ("faithful"), one line too
\* many in the first group, or the last group missing
Behaviours == {"faithful", "extra", "drop"}

EngineResp(units, beh) ==
    CASE beh = "faithful" -> units
      [] beh = "extra" -> [units EXCEPT ![1] = @ + 1]
      [] beh = "drop" -> SubSeq(units, 1, Len(units) - 1)

\* what a call finds when it looks at the process of its process_dict
PriorView(pr) ==
    [status |-> pr.status, stdin_closed |-> pr.stdin_closed,
     stdout_closed |-> pr.stdout_closed, returncode |-> pr.returncode,
     faulted |-> pr.faulted,
     block |-> \E i \in 1..Len(pr.sent) : pr.sent[i] = "block"]

NoCall ==
    [useDict |-> FALSE, len |-> 0, mode |-> "none", pid |-> None,
     prior |-> PriorView(Unspawned), spawned |-> FALSE, outcome |-> "none",
     attempts |-> 0, written |-> FALSE]

\* Popen objects that nothing refers to any more are gone: the process of an
\* earlier call without process_dict and a killed prior process, once that
\* call has returned and they have exited. A process still running stays.
Collect(table, dict) ==
    [p \in Pids |->
        IF p # dict.process /\ table[p].status = "exited" THEN Unspawned
        ELSE table[p]]

\* the documents of this specification: one sentence of two tokens and no
\* orphan; one sentence of one token and one orphan
SessUnits == {<<2, 0>>, <<1, 1>>}

\* the dict left as it is
store_nothing(dict, p) == dict

\* line 51: process_dict["process"] = process
store_process(dict, p) == [dict EXCEPT !.process = p]

\* lines 43-51: the process this call talks to. Without process_dict a new
\* process, started without the warm-up sentence; with process_dict its
\* process, unless that seems dead: then it is killed and a new process,
\* started with the warm-up sentence, takes its place in process_dict.
acquire_in(table, dict, useDict) ==
    LET prior == dict.process
        dead == useDict /\ SeemsDead(table[prior])
        p == IF ~useDict \/ dead THEN NewPid(table) ELSE prior
    IN  [pid |-> p,
         spawned |-> ~useDict \/ dead,
         procs |->
            IF ~useDict THEN [table EXCEPT ![p] = maltstart(FALSE, "fresh")]
            ELSE IF dead
            THEN [table EXCEPT ![prior] = kill_process(@),
                               ![p] = maltstart(TRUE, "respawn")]
            ELSE table,
         dict |-> IF dead THEN store_process(dict, p) ELSE dict]

\* the same for the one worker of Spec, whose finished processes are gone
acquire(table, dict, useDict) ==
    acquire_in(Collect(table, dict), dict, useDict)

NeedsSpawn(table, dict, useDict) ==
    ~useDict \/ SeemsDead(table[dict.process])

CanAcquire(table, dict, useDict) ==
    NeedsSpawn(table, dict, useDict) => CanSpawn(Collect(table, dict))

\* what the engine process does once it has sent its response: it keeps
\* running (None), or it closes its output and exits with an exit code
Endings == ExitCodes \cup {None}

TailOf(ending) == IF ending = None THEN "open" ELSE "eof"

\* lines 80-103: the exchange with process pr, in chat mode or in block
\* mode; gives the result of the exchange and the process after it
exchange(pr, keep, units, beh, ending) ==
    LET \* what is still unread in the pipe comes first
        lines == pr.unread \o RespLines(EngineResp(units, beh))
        \* writing to a process that has exited raises
        r == IF keep
             THEN IF pr.status = "exited"
                  THEN [status |-> "fault", malt_sentences |-> <<>>, nread |-> 0]
                  ELSE chat_exchange(units, lines, TailOf(ending))
             ELSE block_exchange(units, lines)
        exits == ending # None /\ r.status # "hang" /\ pr.status = "running"
    IN  [status |-> r.status,
         proc |->
            IF keep
            THEN [chat_write(pr) EXCEPT
                    \* nothing reads the pipe of an exited process: the
                    \* write before the read raises
                    !.unread = IF exits THEN <<>>
                               ELSE SubSeq(lines, r.nread + 1, Len(lines)),
                    !.faulted = @ \/ r.status # "ok",
                    !.status = IF exits THEN "exited" ELSE @,
                    !.returncode = IF exits THEN ending ELSE @]
            ELSE communicate(pr, ending)]

MaltParse(useDict, units, content, beh, ending) ==
    /\ call.outcome # "hang"
    /\ CanAcquire(procs, process_dict, useDict)
    \* communicate() returns when the process has exited
    /\ ~keep_process(StdinLen(units, content), useDict) => ending # None
    /\ \E a \in {acquire(procs, process_dict, useDict)} :
       \E keep \in {keep_process(StdinLen(units, content), useDict)} :
          /\ Payloads(a.procs[a.pid]) < MaxPayloads
          /\ \E x \in {exchange(a.procs[a.pid], keep, units, beh, ending)} :
                /\ procs' = [a.procs EXCEPT ![a.pid] = x.proc]
                /\ process_dict' =
                     IF useDict
                     THEN [a.dict EXCEPT !.restart = restart_flag(keep)]
                     ELSE a.dict
                /\ call' = [useDict |-> useDict,
                            len |-> StdinLen(units, content),
                            mode |-> IF keep THEN "chat" ELSE "block",
                            pid |-> a.pid,
                            prior |-> IF useDict
                                      THEN PriorView(procs[process_dict.process])
                                      ELSE PriorView(Unspawned),
                            spawned |-> a.spawned,
                            outcome |-> x.status,
                            attempts |-> 1,
                            \* lines 116-118 are reached only if nothing raised
                            written |-> x.status = "ok"]
    /\ UNCHANGED <<chat, pipe, wk, annVars>>

\* The engine process of the session ends by itself. A maltparse call that
\* waits in readline() then gets b"" and fails at the assert.
ProcessExits(rc) ==
    LET p == process_dict.process IN
    /\ procs[p].status = "running"
    /\ procs' = [procs EXCEPT ![p] =
                    [@ EXCEPT !.status = "exited", !.returncode = rc,
                              !.unread = <<>>,
                              !.faulted = @ \/ (call.outcome = "hang" /\ call.pid = p)]]
    /\ call' = IF call.outcome = "hang" /\ call.pid = p
               THEN [call EXCEPT !.outcome = "fault"] ELSE call
    /\ UNCHANGED <<process_dict, chat, pipe, wk, annVars>>

\* the worker's process_dict holds a process that the caller has started
\* with maltstart, and no call has been made
SessInit ==
    /\ \E warm \in BOOLEAN :
          procs = [p \in Pids |-> IF p = 1 THEN maltstart(warm, "caller")
                                  ELSE Unspawned]
    /\ process_dict = [process |-> 1, restart |-> FALSE]
    /\ call = NoCall

\* no session under study
SessIdle ==
    /\ procs = [p \in Pids |-> Unspawned]
    /\ process_dict = [process |-> 1, restart |-> FALSE]
    /\ call = NoCall

\* no chat-mode exchange under study
NoChat ==
    [units |-> <<>>, resp |-> <<>>, tail |-> "open", status |-> "none",
     malt_sentences |-> <<>>, nread |-> 0]

\* no pipe exchange under study
NoPipe ==
    [caller |-> "none", n |-> 0, towrite |-> 0, toread |-> 0, inbuf |-> 0,
     hold |-> 0, outbuf |-> 0, incap |-> 0, outcap |-> 0]

\* no concurrent calls under study
NoWorkers == [dicts |-> <<>>, procs |-> <<>>, workers |-> <<>>]

\* no call with written annotations under study
NoRows == [pc |-> "none"]
NoWords == [pc |-> "none"]
NoDoc == [pc |-> "none"]

Idle == [pc |-> "none"]

UtilIdle ==
    /\ cell = Idle /\ kids = Idle /\ req = Idle
    /\ lexi = Idle /\ imp = Idle /\ sync = Idle /\ texts = Idle
    /\ boot = Idle

AnnIdle == rows = NoRows /\ words = NoWords /\ doc = NoDoc /\ UtilIdle

\* nothing of the MALT session, its pipes or its workers under study
MaltIdle == SessIdle /\ chat = NoChat /\ pipe = NoPipe /\ wk = NoWorkers

Init ==
    /\ SessInit
    /\ chat = NoChat
    /\ pipe = NoPipe
    /\ wk = NoWorkers
    /\ AnnIdle

Next ==
    \/ \E useDict \in BOOLEAN, units \in SessUnits, beh \in Behaviours,
          ending \in Endings :
          \E content \in Contents(units) :
             MaltParse(useDict, units, content, beh, ending)
    \/ \E rc \in ExitCodes : ProcessExits(rc)

Spec == Init /\ [][Next]_vars

----------------------------------------------------------------------------
(* One chat-mode exchange (lines 86-96 and the parsing of lines 108-114)   *)
(* on every document and every framed response within the bounds           *)

\* the responses to a payload with these units: up to one group more than
\* there are units, each group with up to one line more than the longest unit
Resps(units) == SeqsUpTo(0..(MaxUnitLen + 1), 0, Len(units) + 1)

ChatInit ==
    /\ \E units \in Units : \E resp \in Resps(units) :
       \E tail \in {"eof", "open"} :
          chat = [units |-> units, resp |-> resp, tail |-> tail,
                  status |-> "todo", malt_sentences |-> <<>>, nread |-> 0]
    /\ SessIdle
    /\ pipe = NoPipe
    /\ wk = NoWorkers
    /\ AnnIdle

ChatExchange ==
    /\ chat.status = "todo"
    /\ \E r \in {chat_exchange(chat.units, RespLines(chat.resp), chat.tail)} :
          chat' = [chat EXCEPT !.status = r.status,
                               !.malt_sentences = r.malt_sentences,
                               !.nread = r.nread]
    /\ UNCHANGED <<sessVars, pipe, wk, annVars>>

ChatNext == ChatExchange

SpecChat == ChatInit /\ [][ChatNext]_vars

----------------------------------------------------------------------------
(* The pipes of one chat-mode exchange (lines 82-96). maltparse writes the *)
(* whole payload and flushes, and only then reads; the engine reads a      *)
(* sentence from its input and writes that sentence's result to its output *)
(* before it reads the next. Data is counted in sentences of equal length. *)

MaxPipeSents == 8   \* sentences of a payload
MaxPipeCap == 8     \* capacity of a pipe buffer, in sentences

\* bytes of one sentence of the payload, and of its result
SentenceBytes == RESTART_THRESHOLD_LENGTH \div 8

\* the payloads that are sent in chat mode
ChatPayloads ==
    {n \in 1..MaxPipeSents : keep_process(n * SentenceBytes, TRUE)}

\* stdin_fd.flush() left out: nothing of a write reaches the pipe
flush_nothing(n) == 0

\* stdin_fd.write(stdin + SENT_SEP); stdin_fd.flush(): all of the payload is
\* on its way into the pipe, and the call goes on once all of it is there
flush(n) == n

PipeInit ==
    /\ \E n \in ChatPayloads : \E incap, outcap \in 1..MaxPipeCap :
          pipe = [caller |-> "write", n |-> n, towrite |-> flush(n),
                  toread |-> n, inbuf |-> 0, hold |-> 0, outbuf |-> 0,
                  incap |-> incap, outcap |-> outcap]
    /\ SessIdle
    /\ chat = NoChat
    /\ wk = NoWorkers
    /\ AnnIdle

\* flush() moves the next sentence into the input pipe when there is room
CallerCanWrite ==
    pipe.caller = "write" /\ pipe.towrite > 0 /\ pipe.inbuf < pipe.incap

CallerWrite ==
    /\ CallerCanWrite
    /\ pipe' = [pipe EXCEPT !.towrite = @ - 1, !.inbuf = @ + 1]
    /\ UNCHANGED <<sessVars, chat, wk, annVars>>

\* flush() returns once nothing is left to write; the read loop starts
CallerCanFlushed == pipe.caller = "write" /\ pipe.towrite = 0

CallerFlushed ==
    /\ CallerCanFlushed
    /\ pipe' = [pipe EXCEPT !.caller = "read"]
    /\ UNCHANGED <<sessVars, chat, wk, annVars>>

\* the readline() calls for one sentence return when its result is in the
\* output pipe
CallerCanRead ==
    pipe.caller = "read" /\ pipe.toread > 0 /\ pipe.outbuf > 0

CallerRead ==
    /\ CallerCanRead
    /\ pipe' = [pipe EXCEPT !.outbuf = @ - 1, !.toread = @ - 1,
                            !.caller = IF pipe.toread = 1 THEN "done" ELSE @]
    /\ UNCHANGED <<sessVars, chat, wk, annVars>>

\* the engine takes the next sentence from its input
EngineCanConsume == pipe.hold = 0 /\ pipe.inbuf > 0

EngineConsume ==
    /\ EngineCanConsume
    /\ pipe' = [pipe EXCEPT !.inbuf = @ - 1, !.hold = 1]
    /\ UNCHANGED <<sessVars, chat, wk, annVars>>

\* the engine writes the result of the sentence it holds when there is room
EngineCanEmit == pipe.hold = 1 /\ pipe.outbuf < pipe.outcap

EngineEmit ==
    /\ EngineCanEmit
    /\ pipe' = [pipe EXCEPT !.hold = 0, !.outbuf = @ + 1]
    /\ UNCHANGED <<sessVars, chat, wk, annVars>>

PipeNext ==
    \/ CallerWrite
    \/ CallerFlushed
    \/ CallerRead
    \/ EngineConsume
    \/ EngineEmit

SpecPipe == PipeInit /\ [][PipeNext]_vars

----------------------------------------------------------------------------
(* Concurrent maltparse calls. Each worker calls maltparse again and again, *)
(* each time without process_dict or with one of the process_dicts; a call  *)
(* is three steps: lines 43-78 (acquire the process, choose the mode), the  *)
(* write (line 83-84, or the writing half of communicate), and the read     *)
(* (lines 86-96, or the reading half of communicate).                      *)

MaxDicts == 2       \* process_dict objects
MaxCalls == 2       \* calls one worker makes

\* two workers, for the two concurrent calls
Workers == {1, 2}
Dicts == 1..MaxDicts
\* the process_dict argument of a call: a process_dict, or NoDict for None
NoDict == 0
WkPids == 1..(MaxDicts + Cardinality(Workers))

IdleWorker ==
    [pc |-> "idle", arg |-> NoDict, pid |-> None, keep |-> FALSE, calls |-> 0]

\* every process_dict holds a process of its own, started by its maker
WorkersInit ==
    /\ wk = [dicts |-> [d \in Dicts |-> [process |-> d, restart |-> FALSE]],
             procs |-> [p \in WkPids |->
                           IF p \in Dicts THEN maltstart(TRUE, "caller")
                           ELSE Unspawned],
             workers |-> [w \in Workers |-> IdleWorker]]
    /\ SessIdle
    /\ chat = NoChat
    /\ pipe = NoPipe
    /\ AnnIdle

\* process objects that no process_dict and no running call refers to, and
\* that have exited, are gone
WkCollect(st) ==
    [p \in WkPids |->
        IF /\ st.procs[p].status = "exited"
           /\ \A d \in Dicts : st.dicts[d].process # p
           /\ \A w \in Workers :
                 st.workers[w].pc = "idle" \/ st.workers[w].pid # p
        THEN Unspawned ELSE st.procs[p]]

\* lines 43-78 of a call of worker w with process_dict arg (or NoDict) and a
\* payload of len bytes
WStart(w, arg, len) ==
    /\ wk.workers[w].pc = "idle"
    /\ wk.workers[w].calls < MaxCalls
    /\ \E table \in {WkCollect(wk)} :
       \E dict \in {IF arg = NoDict THEN [process |-> 1, restart |-> FALSE]
                    ELSE wk.dicts[arg]} :
          /\ (arg = NoDict \/ SeemsDead(table[dict.process])) => CanSpawn(table)
          /\ \E a \in {acquire_in(table, dict, arg # NoDict)} :
             \E keep \in {keep_process(len, arg # NoDict)} :
                /\ wk' = [dicts |->
                             IF arg = NoDict THEN wk.dicts
                             ELSE [wk.dicts EXCEPT ![arg] =
                                     [a.dict EXCEPT !.restart = restart_flag(keep)]],
                          procs |-> a.procs,
                          workers |-> [wk.workers EXCEPT ![w] =
                                         [pc |-> "write", arg |-> arg,
                                          pid |-> a.pid, keep |-> keep,
                                          calls |-> @.calls + 1]]]
    /\ UNCHANGED <<sessVars, chat, pipe, annVars>>

\* the write of the call of worker w
WWrite(w) ==
    /\ wk.workers[w].pc = "write"
    /\ wk' = [wk EXCEPT
                \* only what the later probes look at is kept of a process here
                !.procs[wk.workers[w].pid] =
                    IF wk.workers[w].keep THEN @
                    ELSE [communicate_write(@) EXCEPT !.sent = <<"block">>],
                !.workers[w].pc = "read"]
    /\ UNCHANGED <<sessVars, chat, pipe, annVars>>

\* the read of the call of worker w, after which the call returns; at the
\* end of its input the engine exits with code rc
WRead(w, rc) ==
    /\ wk.workers[w].pc = "read"
    /\ wk' = [wk EXCEPT
                !.procs[wk.workers[w].pid] =
                    IF wk.workers[w].keep THEN @
                    ELSE communicate_wait(@, rc),
                !.workers[w].pc = "idle"]
    /\ UNCHANGED <<sessVars, chat, pipe, annVars>>

WorkersNext ==
    \/ \E w \in Workers, arg \in Dicts \cup {NoDict},
          len \in {SentenceBytes, RESTART_THRESHOLD_LENGTH} : WStart(w, arg, len)
    \/ \E w \in Workers : WWrite(w)
    \/ \E w \in Workers : WRead(w, 0)

SpecWorkers == WorkersInit /\ [][WorkersNext]_vars

----------------------------------------------------------------------------
(* Properties of the session, checked under Spec *)

HasSent(pr, kind) == \E i \in 1..Len(pr.sent) : pr.sent[i] = kind

CountSent(pr, kind) == Cardinality({i \in 1..Len(pr.sent) : pr.sent[i] = kind})

Called == call.mode # "none"

\* the health probe of the specification: both pipes open, process not exited
Healthy(pr) == ~pr.stdin_closed /\ ~pr.stdout_closed /\ pr.status = "running"

\* C1: a call is served in chat mode if and only if the payload is strictly
\* shorter than RESTART_THRESHOLD_LENGTH and a process_dict was given; every
\* other call (a payload of exactly the threshold length, no process_dict)
\* is served in block mode, by communicate().
C1_ChatIffSmallAndSession ==
    Called =>
        /\ call.mode = "chat" <=>
              (call.len < RESTART_THRESHOLD_LENGTH /\ call.useDict)
        /\ call.mode = "block" <=>
              ~(call.len < RESTART_THRESHOLD_LENGTH /\ call.useDict)
        /\ procs[call.pid].sent[Len(procs[call.pid].sent)] = call.mode

C1_Witness ==
    /\ call.useDict
    /\ call.len = RESTART_THRESHOLD_LENGTH
    /\ call.mode = "block"
    /\ procs[call.pid].stdin_closed

\* C2: after a call with process_dict, process_dict["restart"] is false
\* exactly when the call was served in chat mode and true exactly when it was
\* served in block mode.
C2_RestartFlagTellsMode ==
    (Called /\ call.useDict) =>
        /\ process_dict.restart = FALSE <=> call.mode = "chat"
        /\ process_dict.restart = TRUE <=> call.mode = "block"

C2_Witness ==
    /\ call.useDict
    /\ call.mode = "block"
    /\ process_dict.restart = TRUE
    /\ call.len >= RESTART_THRESHOLD_LENGTH

\* C3: a process that has served a block-mode call never serves a chat-mode
\* exchange afterwards; the next call with the process_dict finds it dead,
\* and a freshly spawned process takes its place.
C3_NoChatAfterBlock ==
    /\ \A p \in Pids : \A i, j \in 1..Len(procs[p].sent) :
          (i < j /\ procs[p].sent[i] = "block") => procs[p].sent[j] # "chat"
    /\ (Called /\ call.useDict /\ call.prior.block) =>
          /\ call.spawned
          /\ procs[call.pid].by = "respawn"
          /\ process_dict.process = call.pid
          /\ CountSent(procs[call.pid], "block") + CountSent(procs[call.pid], "chat") = 1

C3_Witness ==
    /\ call.useDict
    /\ call.prior.block
    /\ call.mode = "chat"
    /\ call.spawned

\* C4: a call reuses the prior session's process only if the health probe
\* passes (both pipes open, process not exited); a prior process that has
\* exited, with whatever exit code, or has a closed pipe is killed and
\* replaced.
C4_ReuseOnlyIfHealthy ==
    (Called /\ call.useDict) =>
        /\ ~call.spawned => Healthy(call.prior)
        /\ ~Healthy(call.prior) =>
              (call.spawned /\ procs[call.pid].by = "respawn")

\* C5 as stated: every process maltparse spawns, without process_dict or
\* after a failed probe, has been sent exactly one warm-up sentence before
\* any payload.
C5_EverySpawnWarmedUp ==
    \A p \in Pids :
        procs[p].by \in {"fresh", "respawn"} =>
            /\ Len(procs[p].sent) >= 1
            /\ procs[p].sent[1] = "warmup"
            /\ CountSent(procs[p], "warmup") = 1

\* C5 as amended: every process spawned to replace a process_dict process
\* that failed the probe has been sent exactly one warm-up sentence, before
\* any payload; a process spawned for a call without process_dict is sent no
\* warm-up sentence, only the payload of that call.
C5_RespawnWarmedUp ==
    \A p \in Pids :
        /\ procs[p].by = "respawn" =>
              /\ Len(procs[p].sent) >= 2
              /\ procs[p].sent[1] = "warmup"
              /\ CountSent(procs[p], "warmup") = 1
        /\ procs[p].by = "fresh" => procs[p].sent = <<"block">>

C5_Witness ==
    \E p, q \in Pids :
        /\ procs[p].by = "respawn" /\ procs[p].sent = <<"warmup", "chat">>
        /\ procs[q].killed

\* C7: after a chat-mode exchange on a process has failed, that process is
\* not used again: the next call with the process_dict spawns a new one.
C7_NoReuseAfterFault ==
    (Called /\ call.useDict /\ call.prior.faulted) => call.spawned

\* C8: a fault is surfaced to the caller only after one respawn and one
\* retry of the batch, that is after a second attempt.
C8_FaultOnlyAfterRetry ==
    (Called /\ call.outcome = "fault") => call.attempts = 2

----------------------------------------------------------------------------
(* Properties of the chat-mode exchange, checked under SpecChat *)

ChatDone == chat.status \in {"ok", "fault", "hang"}

\* the engine's group of lines for some unit has more or fewer lines than
\* the unit has members
Mismatch ==
    \E k \in 1..Min(Len(chat.units), Len(chat.resp)) :
        chat.resp[k] # chat.units[k]

\* lines the loop wants: one per member and one terminator per unit
Wanted == SumSeq(chat.units) + Len(chat.units)

\* C6 as stated: an exchange that returns results has read, unit by unit,
\* as many lines as the unit has members and then one terminator line; and
\* whenever the response for some unit has more or fewer lines than the unit
\* has members, the call fails with a fault.
C6_MismatchIsFault ==
    ChatDone =>
        /\ chat.status = "ok" =>
              /\ chat.nread = Wanted
              /\ Len(chat.malt_sentences) = Len(chat.units)
              /\ \A k \in 1..Len(chat.units) :
                    Len(chat.malt_sentences[k]) = chat.units[k]
        /\ Mismatch => chat.status = "fault"

\* C6 as amended: the same, except that on a mismatch the call does not
\* return results: it fails with a fault, or it stays in readline() for ever,
\* which happens only when the engine keeps its output open after fewer
\* lines than the loop wants.
C6_MismatchNeverReturns ==
    ChatDone =>
        /\ chat.status = "ok" =>
              /\ chat.nread = Wanted
              /\ Len(chat.malt_sentences) = Len(chat.units)
              /\ \A k \in 1..Len(chat.units) :
                    Len(chat.malt_sentences[k]) = chat.units[k]
              /\ Len(chat.resp) >= Len(chat.units)
        /\ Mismatch => chat.status \in {"fault", "hang"}
        /\ chat.status = "hang" =>
              (chat.tail = "open" /\ Len(RespLines(chat.resp)) < Wanted)

C6_Witness ==
    /\ chat.status = "fault"
    /\ Len(chat.units) = 2
    /\ Len(chat.resp) = 2
    /\ chat.resp[1] > chat.units[1]
    /\ chat.resp[2] < chat.units[2]

----------------------------------------------------------------------------
(* Properties of the pipes, checked under SpecPipe *)

\* the exchange is not over and neither end can take a step: maltparse is
\* blocked in flush() or in readline() and the engine in a read or a write
PipeStuck ==
    /\ pipe.caller \in {"write", "read"}
    /\ ~CallerCanWrite /\ ~CallerCanFlushed /\ ~CallerCanRead
    /\ ~EngineCanConsume /\ ~EngineCanEmit

\* C9 as stated: whatever the finite capacities of the two pipe buffers, a
\* chat-mode exchange (a payload below the restart threshold) never gets
\* stuck before every expected response has been read.
C9_NeverStuck == ~PipeStuck

\* C9 as amended: a chat-mode exchange never gets stuck when the input pipe
\* buffer can hold the whole payload; and it ends only when every expected
\* response has been read.
C9_NeverStuckIfPayloadFits ==
    /\ (pipe.caller # "none" /\ pipe.incap >= pipe.n) => ~PipeStuck
    /\ pipe.caller = "done" =>
          (pipe.toread = 0 /\ pipe.towrite = 0 /\ pipe.inbuf = 0
              /\ pipe.hold = 0 /\ pipe.outbuf = 0)

\* the whole payload is in flight, the engine is blocked on its full output
\* pipe, and maltparse has begun to read
C9_Witness ==
    /\ pipe.caller = "read"
    /\ pipe.incap >= pipe.n
    /\ pipe.n * SentenceBytes < RESTART_THRESHOLD_LENGTH
    /\ pipe.hold = 1 /\ pipe.outbuf = pipe.outcap /\ pipe.inbuf > 0
    /\ pipe.toread = pipe.n

----------------------------------------------------------------------------
(* Properties of concurrent calls, checked under SpecWorkers *)

\* worker w has written to its process and has not finished reading from it
InExchange(w) == wk.workers # <<>> /\ wk.workers[w].pc = "read"

----------------------------------------------------------------------------
(* maltparse from the engine's response to the written annotations (lines  *)
(* 53-54 and 86-118), with the columns of the response rows                *)

HEAD_COLUMN == 6
DEPREL_COLUMN == 7
UNDEF == "_"

\* Python's None among column values, and the value of a token that
\* create_empty_attribute has set up and no row has filled
PyNone == "<None>"
EmptyAttr == "<empty>"

\* seq[i] of Python: the first item has index 0, index -1 is the last item
PyIndex(seq, i) == IF i >= 0 THEN seq[i + 1] ELSE seq[Len(seq) + i + 1]

\* whether seq[i] of Python raises IndexError
PyIndexError(seq, i) == i >= Len(seq) \/ -i > Len(seq)

\* The lines the engine prints for a token: ten tab-separated columns (ID,
\* FORM, LEMMA, CPOSTAG, POSTAG, FEATS, HEAD, DEPREL, PHEAD, PDEPREL). They
\* are named here by their HEAD and DEPREL columns.
RowLines == {"0/ROOT", "1/SS", "2/_", "3/OO"}

HeadText(line) ==
    CASE line = "0/ROOT" -> "0"
      [] line = "1/SS" -> "1"
      [] line = "2/_" -> "2"
      [] line = "3/OO" -> "3"
      [] OTHER -> "0"

DeprelText(line) ==
    CASE line = "0/ROOT" -> "ROOT"
      [] line = "1/SS" -> "SS"
      [] line = "2/_" -> "_"
      [] line = "3/OO" -> "OO"
      [] OTHER -> "ROOT"

\* malt_tok.split(TAG_SEP): the columns of a token line, one column for an
\* empty line or b"". A line read by readline() (chat mode) still has its
\* "\n", which stays on the last column.
split_tab(malt_tok, keep) ==
    IF malt_tok \in RowLines \cup {TOKLINE}
    THEN <<"1", "w", "_", "P", "P", "_", HeadText(malt_tok),
           DeprelText(malt_tok), "_", IF keep THEN "_\n" ELSE "_">>
    ELSE <<IF keep /\ malt_tok = BLANK THEN "\n" ELSE "">>

\* int(s) for the text of a small number; everything else raises
IsInt(s) == \E n \in 0..9 : ToString(n) = s

int(s) == CHOOSE n \in 0..9 : ToString(n) = s

\* the head used as an index from 0 as it is
head_index_from0(head) == head

\* the index in sent[head - 1]
head_index(head) == head - 1

\* sent[head - 1]
head_token(sent, head) == PyIndex(sent, head_index(head))

\* lines 110-114 for one token and its row: the three values, or raised
parse_row(sent, malt_tok, keep, ref_annotation) ==
    LET raw == split_tab(malt_tok, keep)
        cols == [i \in 1..Len(raw) |-> IF raw[i] = UNDEF THEN PyNone ELSE raw[i]]
    IN  IF PyIndexError(cols, DEPREL_COLUMN)
            \/ ~IsInt(PyIndex(cols, HEAD_COLUMN))
        THEN [raised |-> TRUE, deprel |-> EmptyAttr, dephead |-> EmptyAttr,
              dephead_ref |-> EmptyAttr]
        ELSE LET head == int(PyIndex(cols, HEAD_COLUMN))
             IN  IF head # 0 /\ PyIndexError(sent, head_index(head))
                 THEN [raised |-> TRUE, deprel |-> EmptyAttr,
                       dephead |-> EmptyAttr, dephead_ref |-> EmptyAttr]
                 ELSE [raised |-> FALSE,
                       deprel |-> PyIndex(cols, DEPREL_COLUMN),
                       dephead |-> IF head # 0
                                   THEN ToString(head_token(sent, head))
                                   ELSE "-",
                       dephead_ref |->
                           IF head # 0
                           THEN PyIndex(ref_annotation, head_token(sent, head))
                           ELSE ""]

\* a list that is one value short
create_short_attribute(n) == [i \in 1..(n - 1) |-> EmptyAttr]

\* util.create_empty_attribute(doc, annotation): one empty value for each
\* of the n spans of the annotation
create_empty_attribute(n) == [i \in 1..n |-> EmptyAttr]

\* the pairs zip(sentences, malt_sentences) and zip(sent, malt_sent) visit:
\* unit k and its j-th member, as far as both sequences go
Zipped(sentences, malt_sentences) ==
    UNION {{<<k, j>> : j \in 1..Min(Len(sentences[k]), Len(malt_sentences[k]))} :
              k \in 1..Min(Len(sentences), Len(malt_sentences))}

\* lines 105-114: the three annotations in memory, or raised
parse_rows(sentences, malt_sentences, keep, ref_annotation, ntokens) ==
    LET zs == Zipped(sentences, malt_sentences)
        row(z) == parse_row(sentences[z[1]], malt_sentences[z[1]][z[2]],
                            keep, ref_annotation)
        \* the pair that fills token t, if there is one
        at(t) == {z \in zs : sentences[z[1]][z[2]] = t}
        val(t, f) == IF at(t) = {} THEN EmptyAttr
                     ELSE row(CHOOSE z \in at(t) : TRUE)[f]
        empty == create_empty_attribute(ntokens)
    IN  [raised |-> \E z \in zs : row(z).raised,
         \* the annotations are Python lists, token 0 first
         out_deprel |-> [i \in DOMAIN empty |-> val(i - 1, "deprel")],
         out_dephead |-> [i \in DOMAIN empty |-> val(i - 1, "dephead")],
         out_dephead_ref |-> [i \in DOMAIN empty |-> val(i - 1, "dephead_ref")]]

\* the response lines of an engine that answers with these groups of rows,
\* each group followed by an empty line
RECURSIVE RowRespLines(_)
RowRespLines(resp) ==
    IF resp = <<>> THEN <<>>
    ELSE Head(resp) \o <<BLANK>> \o RowRespLines(Tail(resp))

\* sentences, orphans = get_children(...); sentences.append(orphans): the
\* token indices of every unit, the tokens numbered from 0 through the document
RECURSIVE sentences_from(_, _)
sentences_from(units, first) ==
    IF units = <<>> THEN <<>>
    ELSE <<[j \in 1..Head(units) |-> first + j - 1]>>
         \o sentences_from(Tail(units), first + Head(units))

\* ref_annotation: the number of every token within its unit, as text
RECURSIVE refs_from(_)
refs_from(units) ==
    IF units = <<>> THEN <<>>
    ELSE [j \in 1..Head(units) |-> ToString(j)] \o refs_from(Tail(units))

Sizes(groups) == [k \in 1..Len(groups) |-> Len(groups[k])]

\* lines 80-114 for a document and a response: the exchange in chat mode or
\* in block mode and the parsing of the rows
maltparse_rows(sentences, resp, keep, tail, ref_annotation) ==
    LET units == Sizes(sentences)
        lines == RowRespLines(resp)
        r == IF keep THEN chat_read(units, lines, tail, 1, 1, <<>>)
             ELSE [status |-> "ok",
                   malt_sentences |-> block_sentences(Text(lines)),
                   nread |-> Len(lines)]
        p == parse_rows(sentences, r.malt_sentences, keep, ref_annotation,
                        SumSeq(units))
    IN  IF r.status # "ok" THEN [status |-> r.status, out |-> <<>>]
        ELSE IF p.raised THEN [status |-> "fault", out |-> <<>>]
        ELSE [status |-> "ok", out |-> p]

\* the documents of this specification: sentences of 3 and 2 tokens and no
\* orphan; a sentence of 2 tokens and one orphan
RowUnits == {<<3, 2, 0>>, <<2, 1>>}

\* the last group that has a line lacks its last line (the engine stopped
\* in the middle of a sentence)
RECURSIVE cut_short(_)
cut_short(shape) ==
    IF shape = <<>> THEN <<>>
    ELSE IF shape[Len(shape)] > 0
    THEN [shape EXCEPT ![Len(shape)] = @ - 1]
    ELSE Append(cut_short(SubSeq(shape, 1, Len(shape) - 1)), 0)

\* the group sizes of the responses to a payload with these units
RowShapes(units) ==
    {EngineResp(units, beh) : beh \in Behaviours} \cup {cut_short(units)}

\* every response with these group sizes
RECURSIVE RowResps(_)
RowResps(shape) ==
    IF shape = <<>> THEN {<<>>}
    ELSE {<<g>> \o rest : g \in SeqsOver(RowLines, Head(shape)),
                          rest \in RowResps(Tail(shape))}

\* the annotation files of maltparse, in the order they are written
OutFiles == <<"dephead", "dephead_ref", "deprel">>

RowsInit ==
    /\ \E units \in RowUnits : \E shape \in RowShapes(units) :
       \E resp \in RowResps(shape) :
       \E keep \in BOOLEAN : \E tail \in {"eof", "open"} :
          /\ ~keep => tail = "eof"
          /\ rows = [pc |-> "todo", sentences |-> sentences_from(units, 0),
                     ref_annotation |-> refs_from(units),
                     resp |-> resp, keep |-> keep, tail |-> tail,
                     status |-> "none", out |-> <<>>, files |-> {}]
    /\ words = NoWords
    /\ doc = NoDoc
    /\ MaltIdle
    /\ UtilIdle

\* lines 80-114
RowsExchange ==
    /\ rows.pc = "todo"
    /\ \E r \in {maltparse_rows(rows.sentences, rows.resp, rows.keep,
                                rows.tail, rows.ref_annotation)} :
          rows' = [rows EXCEPT !.pc = IF r.status = "ok" THEN "parsed"
                                      ELSE r.status,
                               !.status = r.status,
                               !.out = r.out]
    /\ UNCHANGED <<sessVars, chat, pipe, wk, words, doc, utilVars>>

\* lines 116-118: the three write_annotation calls one after the other;
\* raises_at = 0 when none of them raises, else the number of the one that does
RowsWrite(raises_at) ==
    /\ rows.pc = "parsed"
    /\ rows' = [rows EXCEPT
                  !.pc = IF raises_at = 0 THEN "done" ELSE "fault",
                  !.status = IF raises_at = 0 THEN "ok" ELSE "fault",
                  !.files = {OutFiles[i] :
                                i \in 1..(IF raises_at = 0 THEN Len(OutFiles)
                                          ELSE raises_at - 1)}]
    /\ UNCHANGED <<sessVars, chat, pipe, wk, words, doc, utilVars>>

RowsNext ==
    \/ RowsExchange
    \/ \E raises_at \in 0..Len(OutFiles) : RowsWrite(raises_at)

SpecRows == RowsInit /\ [][RowsNext]_vars

----------------------------------------------------------------------------
(* Text values of lexical_classes.py. A Python string is a sequence of     *)
(* pieces, each piece one character or one word that is never taken apart. *)

DELIM == <<"|">>
AFFIX == <<"|">>
SCORESEP == <<":">>

\* the place of a piece in the order of Python's string comparison
ord(c) ==
    CASE c = " " -> 320
      [] c = "5" -> 530
      [] c = "9" -> 570
      [] c = ":" -> 580
      [] c = "A" -> 650
      [] c = "B" -> 660
      [] c = "C" -> 670
      [] c = "D" -> 680
      [] c = "a" -> 970
      [] c = "b" -> 980
      [] c = "bring" -> 981
      [] c = "c" -> 990
      [] c = "roget_class" -> 1141
      [] c = "roget_head" -> 1142
      [] c = "roget_section" -> 1143
      [] c = "roget_subsection" -> 1144
      [] c = "|" -> 1240
      [] OTHER -> 0

\* s < t for two strings
RECURSIVE StrLess(_, _)
StrLess(s, t) ==
    IF t = <<>> THEN FALSE
    ELSE IF s = <<>> THEN TRUE
    ELSE IF Head(s) = Head(t) THEN StrLess(Tail(s), Tail(t))
    ELSE ord(Head(s)) < ord(Head(t))

\* sorted(S) for a set (or a list without repetitions) of strings
RECURSIVE sorted(_)
sorted(S) ==
    IF S = {} THEN <<>>
    ELSE LET m == CHOOSE x \in S : \A y \in S \ {x} : StrLess(x, y)
         IN  <<m>> \o sorted(S \ {m})

Range(f) == {f[i] : i \in DOMAIN f}

\* s.strip(chars)
RECURSIVE lstrip(_, _)
lstrip(s, chars) ==
    IF s # <<>> /\ Head(s) \in Range(chars) THEN lstrip(Tail(s), chars) ELSE s

RECURSIVE rstrip(_, _)
rstrip(s, chars) ==
    IF s # <<>> /\ s[Len(s)] \in Range(chars)
    THEN rstrip(SubSeq(s, 1, Len(s) - 1), chars) ELSE s

strip(s, chars) == rstrip(lstrip(s, chars), chars)

\* sub in s
contains(s, sub) ==
    \E i \in 1..(Len(s) - Len(sub) + 1) : SubSeq(s, i, i + Len(sub) - 1) = sub

\* sep.join(items)
RECURSIVE join(_, _)
join(sep, items) ==
    IF items = <<>> THEN <<>>
    ELSE IF Len(items) = 1 THEN items[1]
    ELSE items[1] \o sep \o join(sep, Tail(items))

\* util.cwbset(values, delimiter, affix): the set as one annotation value
cwbset(values, delimiter, affix) == affix \o join(delimiter, values) \o affix

\* an empty set written as two affixes
empty_cell_pair(affix) == affix \o affix

\* the value written for an empty set (lines 113, 140, 223): affix
empty_cell(affix) == affix

\* lines 140 and 223: util.cwbset(result, delimiter, affix) if result else affix
encode(values, delimiter, affix) ==
    IF values # <<>> THEN cwbset(values, delimiter, affix) ELSE empty_cell(affix)

\* line 194: x.strip(util.AFFIX).split(util.DELIM) if x != util.AFFIX else []
decode(value) ==
    IF value # AFFIX THEN split(strip(value, AFFIX), DELIM) ELSE <<>>

\* lexicon.lookup(key, default)
lookup(lexicon, key, default) ==
    IF key \in DOMAIN lexicon THEN lexicon[key] ELSE default

----------------------------------------------------------------------------
(* annotate_bb_words, annotate_swefn_words and annotate_words              *)

MaxTokens == 1      \* tokens of a document of annotate_words

\* the class sets annotate_bb_words knows
ClassSets ==
    {"bring", "roget_head", "roget_subsection", "roget_section", "roget_class"}

\* a Blingbring lexicon as read_blingbring builds it: for every sense id a
\* dict with one set of labels per class set; sense id "c" is not in it
BringLexicon ==
    (<<"a">> :> [roget_head |-> {<<"A">>, <<"B">>}, roget_subsection |-> {<<"C">>},
                 roget_section |-> {<<"C">>}, roget_class |-> {<<"D">>},
                 bring |-> {<<"B">>, <<"A">>}])
    @@ (<<"b">> :> [roget_head |-> {<<"B">>}, roget_subsection |-> {},
                    roget_section |-> {}, roget_class |-> {},
                    bring |-> {<<"B">>, <<"C">>}])

\* a SweFN lexicon as read_swefn builds it: for every sense id a set of
\* frame ids; sense id "c" is not in it
SwefnLexicon ==
    (<<"a">> :> {<<"B">>, <<"A">>}) @@ (<<"b">> :> {<<"B">>, <<"C">>})

\* line 45: i + scoresep + sid for i in lexicon.lookup(sid, default=set()),
\* over all sid; what lookup returns for a known sid is a dict, and a for
\* loop over a dict runs over its keys
connect_bring(saldo_ids, lexicon, class_set, scoresep) ==
    UNION {{<<i>> \o scoresep \o saldo_ids[n] :
               i \in DOMAIN lookup(lexicon, saldo_ids[n], <<>>)} :
           n \in 1..Len(saldo_ids)}

\* annotate_bring (lines 40-48)
annotate_bring(saldo_ids, lexicon, class_set, connect_IDs, scoresep) ==
    sorted(IF connect_IDs
           THEN connect_bring(saldo_ids, lexicon, class_set, scoresep)
           ELSE UNION {lookup(lexicon, saldo_ids[n],
                              [c \in {class_set} |-> {}])[class_set] :
                       n \in 1..Len(saldo_ids)})

\* annotate_swefn (lines 61-69)
annotate_swefn(saldo_ids, lexicon, connect_IDs, scoresep) ==
    sorted(IF connect_IDs
           THEN UNION {{i \o scoresep \o saldo_ids[n] :
                           i \in lookup(lexicon, saldo_ids[n], {})} :
                       n \in 1..Len(saldo_ids)}
           ELSE UNION {lookup(lexicon, saldo_ids[n], {}) :
                       n \in 1..Len(saldo_ids)})

\* the values of pos_limit: a text; a list of tags, the default of
\* annotate_bb_words; Python's None
StrLimit(text) == [type |-> "str", value |-> text]
ListLimit(tags) == [type |-> "list", value |-> tags]
NoneLimit == [type |-> "None", value |-> <<>>]

\* a lower-case piece for every piece of a pos_limit text
lower_piece(c) ==
    CASE c = "None" -> "none"
      [] c = "NN" -> "nn"
      [] c = "VB" -> "vb"
      [] c = "JJ" -> "jj"
      [] c = "AB" -> "ab"
      [] OTHER -> c

\* s.lower()
lower(s) == [i \in 1..Len(s) |-> lower_piece(s[i])]

\* s.split(): the words between the blanks
split_ws(s) == SelectSeq(split(s, <<" ">>), LAMBDA w : w # <<>>)

\* pos_ok (lines 144-149) for the pos of one token
pos_ok(pos, pos_limit) ==
    IF pos_limit.type = "None" \/ pos_limit.value = <<>> THEN TRUE
    ELSE pos \in Range(split_ws(pos_limit.value))

\* lines 129-131: while saldo_tuples and saldo_tuples[0][1] == saldo_ids[0][1]:
\*     saldo_ids = [saldo_tuples[0]]; del saldo_tuples[0]
RECURSIVE wsd_loop(_, _)
wsd_loop(saldo_ids, saldo_tuples) ==
    IF saldo_tuples # <<>> /\ saldo_tuples[1][2] = saldo_ids[1][2]
    THEN wsd_loop(<<saldo_tuples[1]>>, Tail(saldo_tuples))
    ELSE saldo_ids

\* lines 116-137: the sense ids to look up for one token, or raised
saldo_ids_of(token_sense, disambiguate) ==
    LET items == IF token_sense # AFFIX
                 THEN split(strip(token_sense, AFFIX), DELIM) ELSE <<>>
    IN  IF contains(token_sense, SCORESEP)
        THEN LET parts == [n \in 1..Len(items) |-> split(items[n], SCORESEP)]
             IN  IF \E n \in 1..Len(parts) : PyIndexError(parts[n], 1)
                 THEN [raised |-> TRUE, ids |-> <<>>]
                 ELSE LET saldo_tuples ==
                              [n \in 1..Len(parts) |->
                                  <<PyIndex(parts[n], 0), PyIndex(parts[n], 1)>>]
                          best == wsd_loop(<<saldo_tuples[1]>>, Tail(saldo_tuples))
                      IN  [raised |-> FALSE,
                           ids |-> IF ~disambiguate
                                   THEN [n \in 1..Len(saldo_tuples) |->
                                            saldo_tuples[n][1]]
                                   ELSE [n \in 1..Len(best) |-> best[n][1]]]
        ELSE [raised |-> FALSE, ids |-> items]

\* lines 108-140 for one token
annotate_token(wrapper, token, pos_limit, class_set, disambiguate, connect_ids, delimiter, affix, scoresep) ==
    IF ~pos_ok(token.pos, pos_limit)
    THEN [raised |-> FALSE, skipped |-> TRUE, ids |-> <<>>, result |-> <<>>,
          out |-> empty_cell(affix)]
    ELSE LET s == saldo_ids_of(token.sense, disambiguate)
             result == IF wrapper = "bb"
                       THEN annotate_bring(s.ids, BringLexicon, class_set,
                                           connect_ids, scoresep)
                       ELSE annotate_swefn(s.ids, SwefnLexicon, connect_ids,
                                           scoresep)
         IN  [raised |-> s.raised, skipped |-> FALSE, ids |-> s.ids,
              result |-> result,
              out |-> encode(result, delimiter, affix)]

\* annotate_words (lines 97-141): raises at pos_limit.lower() when pos_limit
\* is not a text; else every token in turn, and then the annotation is written
annotate_words(wrapper, tokens, pos_limit, class_set, disambiguate, connect_ids) ==
    IF pos_limit.type # "str"
    THEN [status |-> "fault", per_token |-> <<>>, written |-> FALSE]
    ELSE LET limit == IF lower(pos_limit.value) = <<"none">> THEN NoneLimit
                      ELSE pos_limit
             per == [n \in DOMAIN create_empty_attribute(Len(tokens)) |->
                        annotate_token(wrapper, tokens[n], limit, class_set,
                                       disambiguate, connect_ids, DELIM, AFFIX,
                                       SCORESEP)]
         IN  IF \E n \in 1..Len(per) : per[n].raised
             THEN [status |-> "fault", per_token |-> <<>>, written |-> FALSE]
             ELSE [status |-> "ok", per_token |-> per, written |-> TRUE]

\* lines 35-37 of annotate_bb_words
bb_class_set(class_set) == IF class_set \notin ClassSets THEN "bring" ELSE class_set

\* the pos_limit a wrapper passes on when the caller gives none (lines 24, 54)
DefaultLimit(wrapper) ==
    IF wrapper = "bb" THEN ListLimit(<<<<"NN">>, <<"VB">>, <<"JJ">>, <<"AB">>>>)
    ELSE StrLimit(<<"NN", " ", "VB", " ", "JJ", " ", "AB">>)

\* the sense ids, scores and parts of speech of the documents
Ids == {<<"a">>, <<"b">>, <<"c">>}
Scores == {<<"9">>, <<"5">>}
PosTags == {<<"NN">>, <<"PM">>}

\* a ranked sense field: different ids, the scores never rising from the
\* highest score
Ranked ==
    {r \in SeqsUpTo(Ids \X Scores, 1, Cardinality(Ids)) :
        /\ r[1][2] = <<"9">>
        /\ \A i, j \in 1..Len(r) : i # j => r[i][1] # r[j][1]
        /\ \A i \in 1..(Len(r) - 1) : ~StrLess(r[i][2], r[i + 1][2])}

\* a sense field without scores: different ids in sorted order
Unranked ==
    {sorted(S) : S \in SUBSET Ids}

\* the annotation value of a sense field
sense_value(scored, items) ==
    IF items = <<>> THEN AFFIX
    ELSE cwbset([n \in 1..Len(items) |->
                    IF scored THEN items[n][1] \o SCORESEP \o items[n][2]
                    ELSE items[n]],
                DELIM, AFFIX)

Tokens ==
    {[pos |-> pos, scored |-> TRUE, items |-> r, sense |-> sense_value(TRUE, r)] :
        pos \in PosTags, r \in Ranked}
    \cup
    {[pos |-> pos, scored |-> FALSE, items |-> u, sense |-> sense_value(FALSE, u)] :
        pos \in PosTags, u \in Unranked}

WordsInit ==
    /\ \E wrapper \in {"bb", "swefn"} :
       \E pos_limit \in {DefaultLimit(wrapper), NoneLimit, StrLimit(<<"None">>),
                         StrLimit(<<"NN">>)} :
       \E class_set \in {"bring", "roget_head", "other"} :
       \E disambiguate, connect_ids \in BOOLEAN :
       \E tokens \in SeqsUpTo(Tokens, 1, MaxTokens) :
          \* annotate_bb_words has no disambiguate, annotate_swefn_words no class_set
          /\ wrapper = "bb" => disambiguate
          /\ wrapper = "swefn" => class_set = "bring"
          /\ words = [pc |-> "todo", wrapper |-> wrapper, pos_limit |-> pos_limit,
                      class_set |-> class_set, disambiguate |-> disambiguate,
                      connect_ids |-> connect_ids, tokens |-> tokens,
                      status |-> "none", per_token |-> <<>>, written |-> FALSE]
    /\ rows = NoRows
    /\ doc = NoDoc
    /\ MaltIdle
    /\ UtilIdle

\* annotate_bb_words or annotate_swefn_words
AnnotateWords ==
    /\ words.pc = "todo"
    /\ \E r \in {annotate_words(words.wrapper, words.tokens, words.pos_limit,
                                IF words.wrapper = "bb"
                                THEN bb_class_set(words.class_set)
                                ELSE words.class_set,
                                words.disambiguate, words.connect_ids)} :
          words' = [words EXCEPT !.pc = "done", !.status = r.status,
                                 !.per_token = r.per_token,
                                 !.written = r.written]
    /\ UNCHANGED <<sessVars, chat, pipe, wk, rows, doc, utilVars>>

WordsNext == AnnotateWords

SpecWords == WordsInit /\ [][WordsNext]_vars

----------------------------------------------------------------------------
(* annotate_doc for the tokens of one text. A score is a fraction          *)
(* [num, den]: a count is count/1, a dominance (count/len(words))/ref_freq. *)

MaxWords == 3       \* tokens of the text
MaxCutoff == 2      \* the cutoff argument

Frac(n, d) == [num |-> n, den |-> d]

\* a < b and a >= b for two scores
ScoreLess(a, b) == a.num * b.den < b.num * a.den

ScoreGeq(a, b) == ~ScoreLess(a, b)

One == Frac(1, 1)

\* the reference models: none; one that knows every class; one in which
\* the classes C and D are missing
FreqModels == {"none", "all", "some"}

FreqLexicon(freq_model) ==
    IF freq_model = "all"
    THEN (<<"A">> :> Frac(1, 1)) @@ (<<"B">> :> Frac(1, 2))
         @@ (<<"C">> :> Frac(1, 2)) @@ (<<"D">> :> Frac(1, 4))
    ELSE (<<"A">> :> Frac(1, 2)) @@ (<<"B">> :> Frac(1, 1))

\* c.replace(old, new) for one-piece old and new
replace(c, old, new) == [i \in 1..Len(c) |-> IF c[i] = old THEN new ELSE c[i]]

\* the list of sense ids as it stands
signature_unsorted(token_sense) ==
    LET items == split(strip(token_sense, AFFIX), DELIM)
    IN  [n \in 1..Len(items) |-> PyIndex(split(items[n], SCORESEP), 0)]

\* line 188: str(sorted([s.split(SCORESEP)[0] for s in
\* sense[token_index].strip(AFFIX).split(DELIM)])); the ids of a sense field
\* are all different
signature(token_sense) ==
    LET items == split(strip(token_sense, AFFIX), DELIM)
    IN  sorted({PyIndex(split(items[n], SCORESEP), 0) : n \in 1..Len(items)})

\* class_freqs[w] += 1 on a defaultdict(int), the keys in insertion order
add_count(class_freqs, w) ==
    IF \E i \in 1..Len(class_freqs) : class_freqs[i][1] = w
    THEN [i \in 1..Len(class_freqs) |->
             IF class_freqs[i][1] = w THEN <<w, class_freqs[i][2] + 1>>
             ELSE class_freqs[i]]
    ELSE Append(class_freqs, <<w, 1>>)

\* lines 195-196
RECURSIVE add_counts(_, _)
add_counts(class_freqs, rogwords) ==
    IF rogwords = <<>> THEN class_freqs
    ELSE add_counts(add_count(class_freqs, Head(rogwords)), Tail(rogwords))

\* lines 185-196 from token n on: the counts of the class labels
RECURSIVE count_classes(_, _, _, _, _, _)
count_classes(classes, sense, types, n, seen_types, class_freqs) ==
    IF n > Len(classes) THEN class_freqs
    ELSE IF types /\ signature(sense[n]) \in seen_types
    THEN count_classes(classes, sense, types, n + 1, seen_types, class_freqs)
    ELSE LET rogwords == IF classes[n] # AFFIX
                         THEN split(strip(classes[n], AFFIX), DELIM) ELSE <<>>
         IN  count_classes(classes, sense, types, n + 1,
                           IF types THEN seen_types \cup {signature(sense[n])}
                           ELSE seen_types,
                           add_counts(class_freqs, rogwords))

\* lines 198-206: the scores, or raised (ZeroDivisionError) when the
\* reference frequency of a class is 0, the default of the lookup
dominances(class_freqs, freq_model, nwords) ==
    IF freq_model = "none"
    THEN [raised |-> FALSE,
          class_freqs |-> [i \in 1..Len(class_freqs) |->
                              <<class_freqs[i][1], Frac(class_freqs[i][2], 1)>>]]
    ELSE LET ref(c) == lookup(FreqLexicon(freq_model), replace(c, "_", " "),
                              Frac(0, 1))
         IN  IF \E i \in 1..Len(class_freqs) : ref(class_freqs[i][1]).num = 0
             THEN [raised |-> TRUE, class_freqs |-> <<>>]
             ELSE [raised |-> FALSE,
                   class_freqs |->
                      [i \in 1..Len(class_freqs) |->
                          <<class_freqs[i][1],
                            Frac(class_freqs[i][2] * ref(class_freqs[i][1]).den,
                                 nwords * ref(class_freqs[i][1]).num)>>]]

\* sorted(items, key=lambda x: x[1], reverse=True): descending by score,
\* items of equal score in their old order
RECURSIVE sorted_by_score(_)
sorted_by_score(items) ==
    IF items = <<>> THEN <<>>
    ELSE LET m == CHOOSE i \in 1..Len(items) :
                     /\ \A j \in 1..Len(items) : ScoreGeq(items[i][2], items[j][2])
                     /\ \A j \in 1..(i - 1) : ScoreLess(items[j][2], items[i][2])
         IN  <<items[m]>> \o
             sorted_by_score(SubSeq(items, 1, m - 1) \o
                             SubSeq(items, m + 1, Len(items)))

\* a filter that keeps every score from 1 on
keeps_from_one(score, freq_model) == ScoreGeq(score, One)

\* lines 210-215: w[1] >= 1 with a reference model, w[1] > 1 without
keeps(score, freq_model) ==
    IF freq_model # "none" THEN ScoreGeq(score, One) ELSE ScoreLess(One, score)

\* the entry after the cutoff-th
cutoff_index_next(cutoff) == cutoff

\* the index in ordered_words[cutoff - 1]
cutoff_index(cutoff) == cutoff - 1

\* lines 217-219
cut_off(ordered_words, cutoff) ==
    IF Len(ordered_words) > cutoff
    THEN LET cutoff_freq == PyIndex(ordered_words, cutoff_index(cutoff))[2]
         IN  SelectSeq(ordered_words, LAMBDA w : ScoreGeq(w[2], cutoff_freq))
    ELSE ordered_words

\* annotate_doc (lines 181-225) for one text: the counts, the entries left
\* by the filter and those left by the cutoff, each with its score; the
\* text of a score (str(round(freq, decimals))) is not built
annotate_doc(classes, sense, cutoff, types, freq_model) ==
    LET counts == count_classes(classes, sense, types, 1, {}, <<>>)
        d == dominances(counts, freq_model, Len(classes))
        filtered == SelectSeq(sorted_by_score(d.class_freqs),
                              LAMBDA w : keeps(w[2], freq_model))
    IN  IF d.raised
        THEN [status |-> "fault", counts |-> counts, filtered |-> <<>>,
              ordered_words |-> <<>>, written |-> FALSE]
        ELSE [status |-> "ok", counts |-> counts, filtered |-> filtered,
              ordered_words |-> cut_off(filtered, cutoff), written |-> TRUE]

\* the class labels of the tokens of a text, and their sense fields: two
\* with the same ids in different order and with different scores, one with
\* another id
DocClasses ==
    {<<>>, <<<<"A">>>>, <<<<"A">>, <<"B">>, <<"C">>>>,
     <<<<"A">>, <<"B">>, <<"C">>, <<"D">>>>}

DocSenses ==
    {<<<<<<"a">>, <<"9">>>>, <<<<"b">>, <<"5">>>>>>,
     <<<<<<"b">>, <<"9">>>>, <<<<"a">>, <<"9">>>>>>,
     <<<<<<"c">>, <<"9">>>>>>}

\* the annotation value of a set of class labels
classes_value(labels) ==
    IF labels = <<>> THEN AFFIX ELSE cwbset(labels, DELIM, AFFIX)

DocInit ==
    /\ \E types \in BOOLEAN :
       \E toks \in SeqsUpTo(DocClasses \X DocSenses, 0, MaxWords) :
       \E cutoff \in 0..MaxCutoff : \E freq_model \in FreqModels :
          \* the sense annotation is read only with types
          /\ ~types => \A n \in 1..Len(toks) :
                          toks[n][2] = <<<<<<"c">>, <<"9">>>>>>
          /\ doc = [pc |-> "todo",
                    labels |-> [n \in 1..Len(toks) |-> toks[n][1]],
                    items |-> [n \in 1..Len(toks) |-> toks[n][2]],
                    cutoff |-> cutoff, types |-> types,
                    freq_model |-> freq_model, status |-> "none",
                    counts |-> <<>>, filtered |-> <<>>, ordered_words |-> <<>>,
                    written |-> FALSE]
    /\ rows = NoRows
    /\ words = NoWords
    /\ MaltIdle
    /\ UtilIdle

AnnotateDoc ==
    /\ doc.pc = "todo"
    /\ \E r \in {annotate_doc([n \in 1..Len(doc.labels) |->
                                  classes_value(doc.labels[n])],
                              [n \in 1..Len(doc.items) |->
                                  sense_value(TRUE, doc.items[n])],
                              doc.cutoff, doc.types, doc.freq_model)} :
          doc' = [doc EXCEPT !.pc = "done", !.status = r.status,
                             !.counts = r.counts, !.filtered = r.filtered,
                             !.ordered_words = r.ordered_words,
                             !.written = r.written]
    /\ UNCHANGED <<sessVars, chat, pipe, wk, rows, words, utilVars>>

DocNext == AnnotateDoc

SpecDoc == DocInit /\ [][DocNext]_vars

----------------------------------------------------------------------------
(* One annotation value: a list of strings written as annotate_words writes *)
(* it and read back as annotate_doc reads it.                               *)

MaxCellLen == 3     \* strings in one value

\* strings without the delimiter and the affix, the empty string among them
CellStrings == {<<>>, <<"a">>, <<"b">>, <<"A">>, <<"a", "b">>}

CellInit ==
    /\ \E values \in SeqsUpTo(CellStrings, 0, MaxCellLen) :
          cell = [pc |-> "todo", values |-> values, value |-> <<>>,
                  read |-> <<>>]
    /\ kids = Idle /\ req = Idle /\ lexi = Idle /\ imp = Idle /\ sync = Idle /\ texts = Idle
    /\ rows = NoRows /\ words = NoWords /\ doc = NoDoc /\ boot = Idle
    /\ MaltIdle

WriteCell ==
    /\ cell.pc = "todo"
    /\ cell' = [cell EXCEPT !.pc = "written",
                            !.value = encode(cell.values, DELIM, AFFIX)]
    /\ UNCHANGED <<sessVars, chat, pipe, wk, rows, words, doc, boot,
                   kids, req, lexi, imp, sync, texts>>

ReadCell ==
    /\ cell.pc = "written"
    /\ cell' = [cell EXCEPT !.pc = "read", !.read = decode(cell.value)]
    /\ UNCHANGED <<sessVars, chat, pipe, wk, rows, words, doc, boot,
                   kids, req, lexi, imp, sync, texts>>

CellNext ==
    \/ WriteCell
    \/ ReadCell

SpecCells == CellInit /\ [][CellNext]_vars

----------------------------------------------------------------------------
(* util.get_children(doc, sentence, token) and the units that maltparse    *)
(* makes of its result (malt.py lines 53-54). A span is <<start, end>>.    *)

MaxParents == 2     \* sentence spans
MaxChildren == 3    \* token spans

Positions == 0..3

Spans == {sp \in Positions \X Positions : sp[1] < sp[2]}

\* the lists of at most n spans in the order of their start offsets
SortedSpans(n) ==
    {sq \in SeqsUpTo(Spans, 0, n) :
        \A i \in 1..(Len(sq) - 1) : sq[i][1] <= sq[i + 1][1]}

\* the children from child c on whose start is before the offset: how many
RECURSIVE run_before(_, _, _)
run_before(children, c, offset) ==
    IF c > Len(children) \/ children[c][1] >= offset THEN 0
    ELSE 1 + run_before(children, c + 1, offset)

\* the indices (from 0) of the k children from child c on
Indices(c, k) == [i \in 1..k |-> c + i - 2]

\* one linear merge over the sorted parents and children, from parent p and
\* child c on: the children before a parent are orphans, those that start
\* inside it are its group, those after the last parent are orphans
RECURSIVE merge_children(_, _, _, _, _, _)
merge_children(parents, children, p, c, groups, orphans) ==
    IF p > Len(parents)
    THEN [groups |-> groups,
          orphans |-> orphans \o Indices(c, Len(children) - c + 1)]
    ELSE LET before == run_before(children, c, parents[p][1])
             inside == run_before(children, c + before, parents[p][2])
         IN  merge_children(parents, children, p + 1, c + before + inside,
                            Append(groups, Indices(c + before, inside)),
                            orphans \o Indices(c, before))

get_children(parents, children) ==
    merge_children(parents, children, 1, 1, <<>>, <<>>)

\* the sentences alone
only_sentences(sentences, orphans) == sentences

\* line 54: sentences.append(orphans)
append_orphans(sentences, orphans) == Append(sentences, orphans)

KidsInit ==
    /\ \E parents \in SortedSpans(MaxParents) :
       \E children \in SortedSpans(MaxChildren) :
          kids = [pc |-> "todo", parents |-> parents, children |-> children,
                  groups |-> <<>>, orphans |-> <<>>, sentences |-> <<>>]
    /\ cell = Idle /\ req = Idle /\ lexi = Idle /\ imp = Idle /\ sync = Idle /\ texts = Idle
    /\ rows = NoRows /\ words = NoWords /\ doc = NoDoc /\ boot = Idle
    /\ MaltIdle

\* lines 53-54 of maltparse
GetChildren ==
    /\ kids.pc = "todo"
    /\ \E r \in {get_children(kids.parents, kids.children)} :
          kids' = [kids EXCEPT !.pc = "done", !.groups = r.groups,
                               !.orphans = r.orphans,
                               !.sentences = append_orphans(r.groups, r.orphans)]
    /\ UNCHANGED <<sessVars, chat, pipe, wk, rows, words, doc, boot,
                   cell, req, lexi, imp, sync, texts>>

KidsNext == GetChildren

SpecKids == KidsInit /\ [][KidsNext]_vars

----------------------------------------------------------------------------
(* The request text of maltparse (malt.py lines 56-84): conll_token, the   *)
(* two joins and what is written to the engine. A text is a sequence of    *)
(* pieces; a tab, a newline and each character of a feature string is a    *)
(* piece.                                                                   *)

MaxReqUnits == 3    \* units of a request, the orphan unit among them
MaxReqTokens == 3   \* tokens of a request

TAG_SEP == <<"TAB">>

\* str(nr)
str(nr) == <<ToString(nr)>>

\* the index from 0 as it is
token_nr_from0(n) == n

\* enumerate(sent) counts from 0: conll_token(n + 1, token_index)
token_nr(n) == n + 1

\* line 65: re.sub(r"[ ,.]", "|", msd).replace("+", "/")
feats_of(msd) ==
    replace([i \in 1..Len(msd) |->
                IF msd[i] \in {" ", ",", "."} THEN "|" ELSE msd[i]],
            "+", "/")

\* lines 61-66
conll_token(nr, token_index, word_annotation, pos_annotation, msd_annotation) ==
    join(TAG_SEP, <<str(nr), word_annotation[token_index + 1], <<UNDEF>>,
                    pos_annotation[token_index + 1],
                    pos_annotation[token_index + 1],
                    feats_of(msd_annotation[token_index + 1])>>)

\* lines 68-69
stdin_text(sentences, word_annotation, pos_annotation, msd_annotation) ==
    join(SENT_SEP,
         [k \in 1..Len(sentences) |->
             join(TOK_SEP,
                  [n \in 1..Len(sentences[k]) |->
                      conll_token(token_nr(n - 1), sentences[k][n],
                                  word_annotation, pos_annotation,
                                  msd_annotation)])])

\* line 83 in chat mode (stdin + SENT_SEP), line 99 in block mode
written_text(stdin, keep) == IF keep THEN stdin \o SENT_SEP ELSE stdin

\* the word, pos and msd values of a token
ReqTokens ==
    {[word |-> <<"w">>, pos |-> <<"NN">>,
      msd |-> <<"NN", ".", "UTR", "+", "SIN">>],
     [word |-> <<"v">>, pos |-> <<"VB">>, msd |-> <<"VB", ",", " ">>],
     [word |-> <<".">>, pos |-> <<"MAD">>, msd |-> <<"MAD">>]}

\* the sizes of the units of a document: sentences and then the orphans
ReqUnits ==
    {u \in SeqsUpTo(0..MaxReqTokens, 1, MaxReqUnits) : SumSeq(u) <= MaxReqTokens}

ReqInit ==
    /\ \E units \in ReqUnits : \E keep \in BOOLEAN :
       \E toks \in SeqsOver(ReqTokens, SumSeq(units)) :
          req = [pc |-> "todo", sentences |-> sentences_from(units, 0),
                 tokens |-> toks, keep |-> keep, stdin |-> <<>>,
                 written |-> <<>>]
    /\ cell = Idle /\ kids = Idle /\ lexi = Idle /\ imp = Idle /\ sync = Idle /\ texts = Idle
    /\ rows = NoRows /\ words = NoWords /\ doc = NoDoc /\ boot = Idle
    /\ MaltIdle

\* lines 56-84 and 99: the request is built and written
WriteRequest ==
    /\ req.pc = "todo"
    /\ \E text \in {stdin_text(req.sentences,
                               [t \in 1..Len(req.tokens) |-> req.tokens[t].word],
                               [t \in 1..Len(req.tokens) |-> req.tokens[t].pos],
                               [t \in 1..Len(req.tokens) |-> req.tokens[t].msd])} :
          req' = [req EXCEPT !.pc = "written", !.stdin = text,
                             !.written = written_text(text, req.keep)]
    /\ UNCHANGED <<sessVars, chat, pipe, wk, rows, words, doc, boot,
                   cell, kids, lexi, imp, sync, texts>>

ReqNext == WriteRequest

SpecReq == ReqInit /\ [][ReqNext]_vars

----------------------------------------------------------------------------
(* annotate_doc over all the texts of a document (lines 172-225), and the  *)
(* three annotators that write one value for each span together.           *)

MaxTexts == 2       \* text spans of a document

\* the class labels of the tokens of a text
TextOptions ==
    {<<>>, <<<<<<"A">>>>>>,
     <<<<<<"A">>, <<"B">>, <<"C">>>>, <<<<"A">>, <<"B">>, <<"C">>>>>>,
     <<<<<<"A">>, <<"B">>, <<"C">>, <<"D">>>>, <<<<"A">>>>>>}

\* lines 179-225: out_annotation[text_index] for every text in the order
\* of text_children, the entries kept for a text standing for its value;
\* nothing is written when a text raises
annotate_docs(text_children, cutoff, freq_model) ==
    LET per == [k \in DOMAIN create_empty_attribute(Len(text_children)) |->
                   annotate_doc([n \in 1..Len(text_children[k]) |->
                                    classes_value(text_children[k][n])],
                                <<>>, cutoff, FALSE, freq_model)]
    IN  IF \E k \in 1..Len(per) : per[k].status # "ok"
        THEN [status |-> "fault", out |-> <<>>, written |-> FALSE]
        ELSE [status |-> "ok",
              out |-> [k \in 1..Len(per) |-> per[k].ordered_words],
              written |-> TRUE]

TextsInit ==
    /\ \E text_children \in SeqsUpTo(TextOptions, 0, MaxTexts) :
       \E cutoff \in 0..MaxCutoff : \E freq_model \in FreqModels :
          texts = [pc |-> "todo", text_children |-> text_children,
                   cutoff |-> cutoff, freq_model |-> freq_model,
                   status |-> "none", out |-> <<>>, written |-> FALSE]
    /\ cell = Idle /\ kids = Idle /\ req = Idle
    /\ lexi = Idle /\ imp = Idle /\ sync = Idle
    /\ rows = NoRows /\ words = NoWords /\ doc = NoDoc /\ boot = Idle
    /\ MaltIdle

AnnotateTexts ==
    /\ texts.pc = "todo"
    /\ \E r \in {annotate_docs(texts.text_children, texts.cutoff,
                               texts.freq_model)} :
          texts' = [texts EXCEPT !.pc = "done", !.status = r.status,
                                 !.out = r.out, !.written = r.written]
    /\ UNCHANGED <<sessVars, chat, pipe, wk, rows, words, doc, boot,
                   cell, kids, req, lexi, imp, sync>>

\* maltparse, annotate_words and annotate_doc, one call of one of them
OutputsInit ==
    \/ RowsInit
    \/ WordsInit
    \/ TextsInit

OutputsNext ==
    \/ RowsNext
    \/ WordsNext
    \/ AnnotateTexts

SpecOutputs == OutputsInit /\ [][OutputsNext]_vars

----------------------------------------------------------------------------
(* One loaded lexicon shared by concurrent annotate calls. The sets are    *)
(* Python objects: the heap gives every object its elements, the lexicon   *)
(* holds the objects of its sense ids, and every worker has the objects    *)
(* that its own call makes (annotate_swefn, lines 61-69; annotate_bring,   *)
(* lines 40-48, has the same shape).                                       *)

MaxLexCalls == 2    \* annotate calls of one worker

LexWorkers == {1, 2}

\* the object the lexicon holds for a sense id
LexObj(sid) == <<"lexicon", 0, sid>>

\* the two objects that swefnid is bound to in turn, and the object made
\* for one lookup: the default set() or the set of connected ids
OwnObj(w, n) == <<"swefnid", w, <<ToString(n)>>>>

ArgObj(w) == <<"arg", w, <<>>>>

LexObjs ==
    {LexObj(sid) : sid \in DOMAIN SwefnLexicon}
       \cup {OwnObj(w, n) : w \in LexWorkers, n \in {1, 2}}
       \cup {ArgObj(w) : w \in LexWorkers}

\* the heap after load
LoadedHeap ==
    [o \in LexObjs |->
        IF o[1] = "lexicon" THEN SwefnLexicon[o[3]] ELSE {}]

\* the other of the two objects of a worker
OtherOwn(w, o) == IF o = OwnObj(w, 1) THEN OwnObj(w, 2) ELSE OwnObj(w, 1)

\* the elements put into the second set, which becomes the result
union_in_place(heap, self, other, fresh) ==
    [heap |-> [heap EXCEPT ![other] = heap[self] \cup heap[other]],
     ref |-> other]

\* self.union(other): a new set, self and other as they were
union(heap, self, other, fresh) ==
    [heap |-> [heap EXCEPT ![fresh] = heap[self] \cup heap[other]],
     ref |-> fresh]

\* line 66 or line 68 for one sid: the heap and the object swefnid is then
\* bound to
swefn_step(heap, w, swefnid, sid, connect_IDs, scoresep) ==
    LET found == sid \in DOMAIN SwefnLexicon
        looked == IF found THEN LexObj(sid) ELSE ArgObj(w)
        heap1 == IF found THEN heap ELSE [heap EXCEPT ![ArgObj(w)] = {}]
        heap2 == IF connect_IDs
                 THEN [heap1 EXCEPT ![ArgObj(w)] =
                          {i \o scoresep \o sid : i \in heap1[looked]}]
                 ELSE heap1
    IN  union(heap2, swefnid, IF connect_IDs THEN ArgObj(w) ELSE looked,
              OtherOwn(w, swefnid))

IdleCaller ==
    [pc |-> "idle", saldo_ids |-> <<>>, todo |-> <<>>, connect_IDs |-> FALSE,
     swefnid |-> <<"none", 0, <<>>>>, calls |-> 0, result |-> <<>>]

LexInit ==
    /\ lexi = [pc |-> "loaded", heap |-> LoadedHeap,
               w |-> [w \in LexWorkers |-> IdleCaller]]
    /\ cell = Idle /\ kids = Idle /\ req = Idle
    /\ imp = Idle /\ sync = Idle /\ texts = Idle
    /\ rows = NoRows /\ words = NoWords /\ doc = NoDoc /\ boot = Idle
    /\ MaltIdle

\* line 62: swefnid = set()
LexStart(w, saldo_ids, connect_IDs) ==
    /\ lexi.w[w].pc \in {"idle", "returned"}
    /\ lexi.w[w].calls < MaxLexCalls
    /\ lexi' = [lexi EXCEPT
                  !.heap = [@ EXCEPT ![OwnObj(w, 1)] = {}],
                  !.w[w] = [pc |-> "loop", saldo_ids |-> saldo_ids,
                            todo |-> saldo_ids, connect_IDs |-> connect_IDs,
                            swefnid |-> OwnObj(w, 1), calls |-> @.calls,
                            result |-> <<>>]]
    /\ UNCHANGED <<sessVars, chat, pipe, wk, rows, words, doc, boot,
                   cell, kids, req, imp, sync, texts>>

\* lines 64-68: one turn of the loop
LexStep(w) ==
    /\ lexi.w[w].pc = "loop"
    /\ lexi.w[w].todo # <<>>
    /\ \E r \in {swefn_step(lexi.heap, w, lexi.w[w].swefnid,
                            Head(lexi.w[w].todo), lexi.w[w].connect_IDs,
                            SCORESEP)} :
          lexi' = [lexi EXCEPT !.heap = r.heap,
                               !.w[w].swefnid = r.ref,
                               !.w[w].todo = Tail(@)]
    /\ UNCHANGED <<sessVars, chat, pipe, wk, rows, words, doc, boot,
                   cell, kids, req, imp, sync, texts>>

\* line 69: return sorted(swefnid)
LexReturn(w) ==
    /\ lexi.w[w].pc = "loop"
    /\ lexi.w[w].todo = <<>>
    /\ lexi' = [lexi EXCEPT
                  !.w[w].pc = "returned",
                  !.w[w].calls = @ + 1,
                  !.w[w].result = sorted(lexi.heap[lexi.w[w].swefnid])]
    /\ UNCHANGED <<sessVars, chat, pipe, wk, rows, words, doc, boot,
                   cell, kids, req, imp, sync, texts>>

LexNext ==
    \E w \in LexWorkers :
       \/ \E saldo_ids \in SeqsUpTo(Ids, 1, 2) : \E connect_IDs \in BOOLEAN :
             LexStart(w, saldo_ids, connect_IDs)
       \/ LexStep(w)
       \/ LexReturn(w)

SpecLex == LexInit /\ [][LexNext]_vars

----------------------------------------------------------------------------
(* The plain-text importer (text_import.py). A text is a sequence of code  *)
(* points: the letters a and e, the combining acute accent, the letter     *)
(* e-acute in one code point, and the ligature fi.                         *)

MaxTextLen == 3     \* code points of a source text

CodePoints == {"a", "e", "acute", "e-acute", "fi-ligature"}

\* the decomposition of one code point, canonical or with compatibility
decomposed(c, compat) ==
    IF c = "e-acute" THEN <<"e", "acute">>
    ELSE IF compat /\ c = "fi-ligature" THEN <<"f", "i">>
    ELSE <<c>>

RECURSIVE decompose(_, _)
decompose(text, compat) ==
    IF text = <<>> THEN <<>>
    ELSE decomposed(Head(text), compat) \o decompose(Tail(text), compat)

\* canonical composition: e and a following accent become e-acute
RECURSIVE compose(_)
compose(text) ==
    IF Len(text) < 2 THEN text
    ELSE IF text[1] = "e" /\ text[2] = "acute"
    THEN <<"e-acute">> \o compose(SubSeq(text, 3, Len(text)))
    ELSE <<text[1]>> \o compose(Tail(text))

\* unicodedata.normalize(form, text)
unicodedata_normalize(form, text) ==
    CASE form = "NFD" -> decompose(text, FALSE)
      [] form = "NFKD" -> decompose(text, TRUE)
      [] form = "NFC" -> compose(decompose(text, FALSE))
      [] form = "NFKC" -> compose(decompose(text, TRUE))

\* line 37: the form is the literal "NFC"
form_used(normalize) == "NFC"

\* lines 36-43
parse(text, prefix, normalize) ==
    LET stored == IF normalize # ""
                  THEN unicodedata_normalize(form_used(normalize), text)
                  ELSE text
    IN  [corpus_text |-> stored,
         text_annotation |-> IF prefix # "" THEN <<prefix, ".text">>
                             ELSE <<"text">>,
         spans |-> <<<<0, Len(stored)>>>>]

ImpInit ==
    /\ \E text \in SeqsUpTo(CodePoints, 0, MaxTextLen) :
       \E normalize \in {"", "NFC", "NFKC", "NFD", "NFKD"} :
       \E prefix \in {"", "p"} :
          imp = [pc |-> "todo", text |-> text, normalize |-> normalize,
                 prefix |-> prefix, corpus_text |-> <<>>,
                 text_annotation |-> <<>>, spans |-> <<>>]
    /\ cell = Idle /\ kids = Idle /\ req = Idle
    /\ lexi = Idle /\ sync = Idle /\ texts = Idle
    /\ rows = NoRows /\ words = NoWords /\ doc = NoDoc /\ boot = Idle
    /\ MaltIdle

Parse ==
    /\ imp.pc = "todo"
    /\ \E r \in {parse(imp.text, imp.prefix, imp.normalize)} :
          imp' = [imp EXCEPT !.pc = "done", !.corpus_text = r.corpus_text,
                             !.text_annotation = r.text_annotation,
                             !.spans = r.spans]
    /\ UNCHANGED <<sessVars, chat, pipe, wk, rows, words, doc, boot,
                   cell, kids, req, lexi, sync, texts>>

ImpNext == Parse

SpecImp == ImpInit /\ [][ImpNext]_vars

----------------------------------------------------------------------------
(* The warm-up of maltstart and one chat-mode call as texts, against an    *)
(* engine that reads its input line by line: an empty line after token     *)
(* lines ends a sentence, which the engine answers with one line per       *)
(* token and an empty line; an empty line after no token line is an empty  *)
(* sentence, which it does not answer. This is the engine for which the    *)
(* two readline() of the warm-up take the whole answer.                    *)

\* line 146: "1\t.\t_\tMAD\tMAD\tMAD\n\n\n"
WarmupText ==
    join(TAG_SEP, <<str(1), <<".">>, <<UNDEF>>, <<"MAD">>, <<"MAD">>,
                    <<"MAD">>>>) \o <<NL, NL, NL>>

\* the lines of a text that are complete (end with "\n")
CompleteLines(text) ==
    LET pieces == split(text, <<NL>>)
    IN  SubSeq(pieces, 1, Len(pieces) - 1)

\* the answer lines of the engine to these input lines, pending being the
\* token lines of the sentence not yet ended
RECURSIVE EngineAnswer(_, _)
EngineAnswer(lines, pending) ==
    IF lines = <<>> THEN <<>>
    ELSE IF Head(lines) # <<>> THEN EngineAnswer(Tail(lines), pending + 1)
    ELSE IF pending > 0
    THEN Repeat(TOKLINE, pending) \o <<BLANK>> \o EngineAnswer(Tail(lines), 0)
    ELSE EngineAnswer(Tail(lines), 0)

\* the request of a document with these units, every token the same
UnitsText(units) ==
    stdin_text(sentences_from(units, 0),
               [t \in 1..SumSeq(units) |-> <<"w">>],
               [t \in 1..SumSeq(units) |-> <<"NN">>],
               [t \in 1..SumSeq(units) |-> <<"NN">>])

\* the units of a document: up to two sentences and then the orphans
WarmUnits == SeqsUpTo(0..MaxUnitLen, 1, MaxSents + 2)

WarmInit ==
    /\ \E units \in WarmUnits : \E send_empty_sentence \in BOOLEAN :
          boot = [pc |-> "spawned", units |-> units,
                  send_empty_sentence |-> send_empty_sentence,
                  unread |-> <<>>, warmup_read |-> <<>>, status |-> "none",
                  malt_sentences |-> <<>>]
    /\ cell = Idle /\ kids = Idle /\ req = Idle
    /\ lexi = Idle /\ imp = Idle /\ sync = Idle /\ texts = Idle
    /\ rows = NoRows /\ words = NoWords /\ doc = NoDoc
    /\ MaltIdle

\* lines 141-149 of maltstart
Warmup ==
    /\ boot.pc = "spawned"
    /\ \E lines \in {IF boot.send_empty_sentence
                     THEN EngineAnswer(CompleteLines(WarmupText), 0)
                     ELSE <<>>} :
          boot' = [boot EXCEPT
                     !.pc = "started",
                     !.warmup_read = IF boot.send_empty_sentence
                                     THEN ReadN(lines, 1, 2, "open") ELSE <<>>,
                     !.unread = SubSeq(lines, 3, Len(lines))]
    /\ UNCHANGED <<sessVars, chat, pipe, wk, rows, words, doc,
                   cell, kids, req, lexi, imp, sync, texts>>

\* lines 80-96 of maltparse
ChatCall ==
    /\ boot.pc = "started"
    /\ \E lines \in {boot.unread \o
                        EngineAnswer(CompleteLines(
                            written_text(UnitsText(boot.units), TRUE)), 0)} :
       \E r \in {chat_read(boot.units, lines, "open", 1, 1, <<>>)} :
          boot' = [boot EXCEPT
                     !.pc = "done", !.status = r.status,
                     !.malt_sentences = r.malt_sentences,
                     !.unread = SubSeq(lines, r.nread + 1, Len(lines))]
    /\ UNCHANGED <<sessVars, chat, pipe, wk, rows, words, doc,
                   cell, kids, req, lexi, imp, sync, texts>>

WarmNext ==
    \/ Warmup
    \/ ChatCall

SpecWarm == WarmInit /\ [][WarmNext]_vars

(***************************************************************************)
(* install_corpus.py: sync_cwb.  The corpus name and the host are strings, *)
(* the directories are sequences of path segments (the empty sequence is   *)
(* the empty string), and the registry file is a sequence of lines.  A     *)
(* line is its keyword and the segments of the path that follows it; a     *)
(* line without a slash has no segments.  Every call that touches the      *)
(* outside (rsync, open, os.remove) either returns or raises.              *)
(***************************************************************************)
MaxRegLines == 2

RegLines ==
    { [key |-> "HOME", segs |-> <<"d", "c">>],
      [key |-> "HOME", segs |-> <<>>],
      [key |-> "INFO", segs |-> <<"d", "c">>],
      [key |-> "ID", segs |-> <<>>] }

\* Lines 48-58 without the last check.
missing_argument_three(corpus, host, target_datadir, target_registry) ==
    IF corpus = "" THEN "Missing corpus name"
    ELSE IF host = "" THEN "cwb.remote_host not set"
    ELSE IF target_datadir = <<>> THEN "cwb.remote_datadir not set"
    ELSE ""

\* Lines 48-58: the message of the SparvErrorMessage raised, "" when none.
missing_argument(corpus, host, target_datadir, target_registry) ==
    IF corpus = "" THEN "Missing corpus name"
    ELSE IF host = "" THEN "cwb.remote_host not set"
    ELSE IF target_datadir = <<>> THEN "cwb.remote_datadir not set"
    ELSE IF target_registry = <<>> THEN "cwb.remote_registry not set"
    ELSE ""

\* Lines 70-73: re.sub(r"HOME .*(/.+)", "HOME " + target_datadir + r"\1")
\* and the same for INFO: the greedy .* leaves the last segment to the group;
\* a line the pattern does not match is written as it is.
fix_path(line, target_datadir) ==
    IF line.key \in {"HOME", "INFO"} /\ line.segs # <<>>
    THEN [line EXCEPT !.segs = target_datadir \o <<line.segs[Len(line.segs)]>>]
    ELSE line

\* Lines 67-75: the temporary registry file.
fix_registry(lines, target_datadir) ==
    [i \in DOMAIN lines |-> fix_path(lines[i], target_datadir)]

NoFile == [present |-> FALSE, lines |-> <<>>]

SyncOrder ==
    <<"rsync_datadir", "write_tmp", "rsync_registry", "remove_tmp", "marker">>

SyncInit ==
    /\ \E corpus \in {"", "c"} : \E host \in {"", "h"} :
       \E datadir \in {<<>>, <<"d">>} : \E registry \in {<<>>, <<"r">>} :
       \E target_datadir \in {<<>>, <<"t">>} :
       \E target_registry \in {<<>>, <<"tr">>} :
       \E lines \in SeqsUpTo(RegLines, 0, MaxRegLines) :
          sync = [pc |-> "start", corpus |-> corpus, host |-> host,
                  datadir |-> datadir, registry |-> registry,
                  target_datadir |-> target_datadir,
                  target_registry |-> target_registry,
                  registry_file |-> lines, tmp |-> NoFile,
                  remote_data |-> FALSE, remote_registry |-> NoFile,
                  marker |-> FALSE, error |-> "", log |-> <<>>]
    /\ cell = Idle /\ kids = Idle /\ req = Idle
    /\ lexi = Idle /\ imp = Idle /\ texts = Idle
    /\ rows = NoRows /\ words = NoWords /\ doc = NoDoc /\ boot = Idle
    /\ MaltIdle

SyncIdleRest ==
    UNCHANGED <<sessVars, chat, pipe, wk, rows, words, doc, boot,
                cell, kids, req, lexi, imp, texts>>

\* Lines 48-58.
SyncCheck ==
    /\ sync.pc = "start"
    /\ \E msg \in {missing_argument(sync.corpus, sync.host,
                                    sync.target_datadir,
                                    sync.target_registry)} :
          sync' = IF msg # ""
                  THEN [sync EXCEPT !.pc = "raised", !.error = msg]
                  ELSE [sync EXCEPT !.pc = "rsync_datadir"]
    /\ SyncIdleRest

\* Lines 60-61.
RsyncDatadir ==
    /\ sync.pc = "rsync_datadir"
    /\ \E ok \in BOOLEAN :
          sync' = IF ok
                  THEN [sync EXCEPT !.pc = "write_tmp", !.remote_data = TRUE,
                                    !.log = Append(@, "rsync_datadir")]
                  ELSE [sync EXCEPT !.pc = "raised", !.error = "rsync"]
    /\ SyncIdleRest

\* Lines 63-75.
WriteTmpRegistry ==
    /\ sync.pc = "write_tmp"
    /\ \E ok \in BOOLEAN :
          sync' = IF ok
                  THEN [sync EXCEPT
                           !.pc = "rsync_registry",
                           !.tmp = [present |-> TRUE,
                                    lines |-> fix_registry(sync.registry_file,
                                                           sync.target_datadir)],
                           !.log = Append(@, "write_tmp")]
                  ELSE [sync EXCEPT !.pc = "raised", !.error = "open"]
    /\ SyncIdleRest

\* Line 77.
RsyncRegistry ==
    /\ sync.pc = "rsync_registry"
    /\ \E ok \in BOOLEAN :
          sync' = IF ok
                  THEN [sync EXCEPT !.pc = "remove_tmp",
                                    !.remote_registry = sync.tmp,
                                    !.log = Append(@, "rsync_registry")]
                  ELSE [sync EXCEPT !.pc = "raised", !.error = "rsync"]
    /\ SyncIdleRest

\* Line 78.
RemoveTmp ==
    /\ sync.pc = "remove_tmp"
    /\ \E ok \in BOOLEAN :
          sync' = IF ok
                  THEN [sync EXCEPT !.pc = "marker", !.tmp = NoFile,
                                    !.log = Append(@, "remove_tmp")]
                  ELSE [sync EXCEPT !.pc = "raised", !.error = "remove"]
    /\ SyncIdleRest

\* Line 81.
WriteMarker ==
    /\ sync.pc = "marker"
    /\ sync' = [sync EXCEPT !.pc = "done", !.marker = TRUE,
                            !.log = Append(@, "marker")]
    /\ SyncIdleRest

SyncNext ==
    \/ SyncCheck
    \/ RsyncDatadir
    \/ WriteTmpRegistry
    \/ RsyncRegistry
    \/ RemoveTmp
    \/ WriteMarker

SpecSync == SyncInit /\ [][SyncNext]_vars

----------------------------------------------------------------------------
(* Properties of the parsed rows and the written annotations, checked      *)
(* under SpecRows                                                          *)

RowsSucceeded == rows.pc \in {"parsed", "done"}

\* the number in the HEAD column of a row the engine printed
HeadNum(line) ==
    CASE line = "0/ROOT" -> 0
      [] line = "1/SS" -> 1
      [] line = "2/_" -> 2
      [] line = "3/OO" -> 3

\* the value that identifies the row a token's deprel was taken from
DeprelOf(line) == IF DeprelText(line) = "_" THEN PyNone ELSE DeprelText(line)

\* C11: when maltparse succeeds, in chat mode and in block mode, every member
\* of every submitted unit has received the row of the response line at its
\* position in its unit: the response had a group for the unit and in it a
\* line for the member; a response that lacks them is not a success.
C11_EveryMemberGetsItsRow ==
    RowsSucceeded =>
        \A k \in 1..Len(rows.sentences) : \A j \in 1..Len(rows.sentences[k]) :
            /\ k <= Len(rows.resp)
            /\ j <= Len(rows.resp[k])
            /\ PyIndex(rows.out.out_deprel, rows.sentences[k][j]) # EmptyAttr
            /\ PyIndex(rows.out.out_deprel, rows.sentences[k][j])
                  = DeprelOf(rows.resp[k][j])

\* C12: for every token that was given a row, a head of 0 gives "-" as
\* dephead and "" as dephead_ref; a head h other than 0 gives the document
\* index of the h-th token of the same sentence as dephead and that token's
\* ref value as dephead_ref; a deprel column "_" gives None, any other its text.
C12_HeadAndDeprelMapping ==
    RowsSucceeded =>
        \A k \in 1..Len(rows.sentences) : \A j \in 1..Len(rows.sentences[k]) :
            LET t == rows.sentences[k][j]
                sent == rows.sentences[k]
            IN  PyIndex(rows.out.out_dephead, t) # EmptyAttr =>
                  /\ k <= Len(rows.resp) /\ j <= Len(rows.resp[k])
                  /\ LET h == HeadNum(rows.resp[k][j])
                         d == DeprelText(rows.resp[k][j])
                     IN  /\ h = 0 =>
                              /\ PyIndex(rows.out.out_dephead, t) = "-"
                              /\ PyIndex(rows.out.out_dephead_ref, t) = ""
                         /\ h # 0 =>
                              /\ h <= Len(sent)
                              /\ PyIndex(rows.out.out_dephead, t) = ToString(sent[h])
                              /\ PyIndex(rows.out.out_dephead_ref, t)
                                    = PyIndex(rows.ref_annotation, sent[h])
                         /\ d = "_" => PyIndex(rows.out.out_deprel, t) = PyNone
                         /\ d # "_" => PyIndex(rows.out.out_deprel, t) = d

\* sentences of 3 and 2 tokens written in full: the second token of the
\* second sentence has that sentence's first token, token 3 of the document
\* with ref "1", as its head; the first has no head and no deprel
C12_Witness ==
    /\ rows.pc = "done"
    /\ Len(rows.sentences) = 3
    /\ rows.files = {"dephead", "dephead_ref", "deprel"}
    /\ PyIndex(rows.out.out_dephead, 4) = "3"
    /\ PyIndex(rows.out.out_dephead_ref, 4) = "1"
    /\ PyIndex(rows.out.out_dephead, 3) = "-"
    /\ PyIndex(rows.out.out_dephead_ref, 3) = ""
    /\ PyIndex(rows.out.out_deprel, 2) = PyNone

\* C13: when maltparse fails at some step, none of its annotations has been
\* written; dephead is never written while dephead_ref or deprel is missing.
C13_NoPartialOutput ==
    /\ rows.pc \in {"fault", "hang"} => rows.files = {}
    /\ "dephead" \in rows.files => {"dephead_ref", "deprel"} \subseteq rows.files

----------------------------------------------------------------------------
(* Properties of annotate_words, checked under SpecWords                   *)

WordsDone == words.pc = "done"

\* the ids of the leading run of a ranked sense field whose score equals
\* the first score, and all of its ids
LeadingRun(items) ==
    {items[i][1] : i \in {i \in 1..Len(items) :
                             \A j \in 1..i : items[j][2] = items[1][2]}}

AllIds(items) == {items[i][1] : i \in 1..Len(items)}

\* C14: for a token with a ranked, scored sense field that is looked up,
\* the ids looked up are, with disambiguate, exactly the ids of the leading
\* run whose score equals the first score ([(a,9),(b,9),(c,5)] gives {a,b}),
\* and without disambiguate all ids.
C14_LooksUpLeadingRun ==
    (WordsDone /\ words.status = "ok") =>
        \A n \in 1..Len(words.tokens) :
            (words.tokens[n].scored /\ ~words.per_token[n].skipped) =>
                Range(words.per_token[n].ids) =
                    IF words.disambiguate
                    THEN LeadingRun(words.tokens[n].items)
                    ELSE AllIds(words.tokens[n].items)

\* the class labels the lexicon of the annotator maps a sense id to; for
\* Blingbring the labels of the selected class set
LabelsOf(wrapper, class_set, sid) ==
    IF wrapper = "bb"
    THEN IF sid \in DOMAIN BringLexicon
         THEN BringLexicon[sid][IF class_set \in ClassSets THEN class_set
                                ELSE "bring"]
         ELSE {}
    ELSE IF sid \in DOMAIN SwefnLexicon THEN SwefnLexicon[sid] ELSE {}

\* C18: with connect_ids every element of a token's result is
\* hit + scoresep + id for an id that was looked up and a class label hit the
\* lexicon maps that id to (for Blingbring a label of the selected class
\* set); without connect_ids the result is the union of those labels; either
\* way the result is sorted and has no duplicates.
C18_ConnectedIdsAndSortedUnion ==
    (WordsDone /\ words.status = "ok") =>
        \A n \in 1..Len(words.tokens) :
            LET res == words.per_token[n].result
                ids == Range(words.per_token[n].ids)
            IN  ~words.per_token[n].skipped =>
                  /\ words.connect_ids =>
                        \A e \in Range(res) :
                            \E sid \in ids :
                            \E hit \in LabelsOf(words.wrapper, words.class_set, sid) :
                                e = hit \o SCORESEP \o sid
                  /\ ~words.connect_ids =>
                        Range(res) =
                            UNION {LabelsOf(words.wrapper, words.class_set, sid) :
                                      sid \in ids}
                  /\ \A i, j \in 1..Len(res) : i < j => StrLess(res[i], res[j])

\* whether the caller has set an allow-list (None and the text "none" set
\* none), and its tags
HasAllowList(pos_limit) ==
    /\ pos_limit.type # "None"
    /\ ~(pos_limit.type = "str" /\ pos_limit.value \in {<<"None">>, <<"none">>})

AllowedTags(pos_limit) ==
    IF pos_limit.type = "list" THEN Range(pos_limit.value)
    ELSE {<<c>> : c \in Range(pos_limit.value) \ {" "}}

\* C19: annotate_words goes through every token, and a token is skipped,
\* its value the empty marker, if and only if an allow-list is set and the
\* token's pos is not in it; without an allow-list (None) every token is
\* looked up, and with the default list of annotate_bb_words the tokens
\* tagged NN, VB, JJ or AB are.
C19_SkipsIffNotAllowed ==
    WordsDone =>
        \A n \in 1..Len(words.tokens) :
            /\ n <= Len(words.per_token)
            /\ words.per_token[n].skipped <=>
                  (/\ HasAllowList(words.pos_limit)
                   /\ words.tokens[n].pos \notin AllowedTags(words.pos_limit))
            /\ words.per_token[n].skipped => words.per_token[n].out = AFFIX


----------------------------------------------------------------------------
(* Properties of annotate_doc, checked under SpecDoc.                      *)

DocDone == doc.pc = "done"

DocOk == DocDone /\ doc.status = "ok"

\* the entries of score at least s, and of score above s
NumGeq(entries, s) ==
    Cardinality({i \in 1..Len(entries) : ScoreGeq(entries[i][2], s)})

NumAbove(entries, s) ==
    Cardinality({i \in 1..Len(entries) : ScoreLess(s, entries[i][2])})

\* C15: with n entries left after the filter and k = min(cutoff, n), the
\* result holds exactly the entries whose score is at least the score of
\* the k-th entry in descending order, ties at that rank included, and is
\* itself in descending order of score.
C15_CutoffKeepsTies ==
    (DocOk /\ doc.cutoff >= 1) =>
        LET n == Len(doc.filtered)
            k == IF doc.cutoff < n THEN doc.cutoff ELSE n
        IN  /\ n = 0 => doc.ordered_words = <<>>
            /\ n > 0 =>
                  \E i \in 1..n :
                     LET s == doc.filtered[i][2]
                     IN  /\ NumAbove(doc.filtered, s) < k
                         /\ k <= NumGeq(doc.filtered, s)
                         /\ Range(doc.ordered_words) =
                               {doc.filtered[j] : j \in
                                  {j \in 1..n : ScoreGeq(doc.filtered[j][2], s)}}
                         /\ Len(doc.ordered_words) = NumGeq(doc.filtered, s)
            /\ \A a, b \in 1..Len(doc.ordered_words) :
                  a < b => ScoreGeq(doc.ordered_words[a][2],
                                    doc.ordered_words[b][2])

\* a tie at the cutoff rank: more than cutoff entries kept, others dropped
C15_Witness ==
    /\ DocOk
    /\ doc.cutoff >= 1
    /\ Len(doc.ordered_words) > doc.cutoff
    /\ Len(doc.ordered_words) < Len(doc.filtered)

\* C16: without a reference model a counted class is dropped exactly when
\* its count is 1, with one exactly when its dominance is below 1; the
\* result is drawn from the entries that are left, and all of them are kept
\* when they are no more than cutoff.
C16_FilterBeforeCutoff ==
    DocOk =>
        /\ \A i \in 1..Len(doc.counts) :
              LET c == doc.counts[i][1]
                  count == doc.counts[i][2]
                  kept == \E j \in 1..Len(doc.filtered) : doc.filtered[j][1] = c
              IN  IF doc.freq_model = "none"
                  THEN kept <=> count # 1
                  ELSE kept <=>
                          count * FreqLexicon(doc.freq_model)[c].den
                             >= Len(doc.labels) * FreqLexicon(doc.freq_model)[c].num
        /\ \A j \in 1..Len(doc.filtered) :
              \E i \in 1..Len(doc.counts) : doc.counts[i][1] = doc.filtered[j][1]
        /\ Range(doc.ordered_words) \subseteq Range(doc.filtered)
        /\ Len(doc.filtered) <= doc.cutoff => doc.ordered_words = doc.filtered

\* a class seen once is dropped and another is kept, no reference model
C16_Witness ==
    /\ DocOk
    /\ doc.freq_model = "none"
    /\ doc.cutoff >= 1
    /\ \E i \in 1..Len(doc.counts) : doc.counts[i][2] = 1
    /\ doc.ordered_words # <<>>

\* the sense ids of a token, and whether the token is counted
IdSet(items) == {items[n][1] : n \in 1..Len(items)}

Contributes(n) ==
    doc.types => \A m \in 1..(n - 1) : IdSet(doc.items[m]) # IdSet(doc.items[n])

ExpectedCount(c) ==
    Cardinality({n \in 1..Len(doc.labels) :
                    Contributes(n) /\ c \in Range(doc.labels[n])})

\* C17: with types the tokens that have the same set of sense ids, whatever
\* their order and scores, are counted once, the first of them; without
\* types every token is counted.
C17_TypesCountOncePerSignature ==
    DocDone =>
        /\ \A i \in 1..Len(doc.counts) :
              doc.counts[i][2] = ExpectedCount(doc.counts[i][1])
        /\ \A n \in 1..Len(doc.labels) : \A c \in Range(doc.labels[n]) :
              ExpectedCount(c) > 0 =>
                 \E i \in 1..Len(doc.counts) : doc.counts[i][1] = c

\* a later token with the ids of an earlier one in another order
C17_Witness ==
    /\ DocDone
    /\ doc.types
    /\ \E n \in 1..Len(doc.labels) : \E m \in 1..(n - 1) :
          /\ IdSet(doc.items[m]) = IdSet(doc.items[n])
          /\ doc.items[m] # doc.items[n]
          /\ doc.labels[n] # <<>>
          /\ Contributes(m)

\* C20: a class label that the reference model does not know does not abort
\* annotate_doc: the call completes and writes its annotation.
C20_MissingLabelNeverFatal ==
    DocDone => (doc.status = "ok" /\ doc.written)


----------------------------------------------------------------------------
(* Properties of one annotation value, checked under SpecCells and, for    *)
(* the values annotate_words writes, under SpecWords.                      *)

\* C21: a list of strings without delimiter and affix, written as
\* annotate_words writes it and read back as annotate_doc reads it, is the
\* list again.
C21_RoundTrip ==
    cell.pc = "read" => cell.read = cell.values

----------------------------------------------------------------------------
(* Properties of the grouping of tokens into units, checked under SpecKids. *)

\* the places <<k, j>> of the units at which token index t stands
PlacesOf(units, t) ==
    {pl \in UNION {{<<k, j>> : j \in 1..Len(units[k])} : k \in 1..Len(units)} :
        units[pl[1]][pl[2]] = t}

\* C23: every child index stands exactly once in the groups and the
\* orphans, a child in a group starts inside the parent of the group, and
\* the units that maltparse submits, the orphans being the last of them,
\* hold every token index exactly once, their sizes summing to the number
\* of tokens.
C23_EveryTokenInOneUnit ==
    kids.pc = "done" =>
        /\ \A t \in 0..(Len(kids.children) - 1) :
              /\ Cardinality(PlacesOf(Append(kids.groups, kids.orphans), t)) = 1
              /\ Cardinality(PlacesOf(kids.sentences, t)) = 1
        /\ \A k \in 1..Len(kids.groups) : \A j \in 1..Len(kids.groups[k]) :
              /\ kids.parents[k][1] <= kids.children[kids.groups[k][j] + 1][1]
              /\ kids.children[kids.groups[k][j] + 1][1] < kids.parents[k][2]
        /\ Len(kids.sentences) = Len(kids.parents) + 1
        /\ kids.sentences[Len(kids.sentences)] = kids.orphans
        /\ SumSeq(Sizes(kids.sentences)) = Len(kids.children)

\* tokens in a sentence and tokens outside every sentence
C23_Witness ==
    /\ kids.pc = "done"
    /\ kids.orphans # <<>>
    /\ \E k \in 1..Len(kids.groups) : Len(kids.groups[k]) >= 2

----------------------------------------------------------------------------
(* Properties of the request text, checked under SpecReq.                  *)

\* the feature string of a token as the engine is to get it
FeatsAsClaimed(msd, feats) ==
    /\ Len(feats) = Len(msd)
    /\ \A i \in 1..Len(msd) :
          feats[i] = CASE msd[i] = " " -> "|"
                       [] msd[i] = "," -> "|"
                       [] msd[i] = "." -> "|"
                       [] msd[i] = "+" -> "/"
                       [] OTHER -> msd[i]

\* C24: cut at the blank lines the request gives the units in order, a unit
\* cut at the newlines one line per token, a line cut at the tabs the six
\* columns index, form, "_", tag, tag, features, the index counting from 1
\* in every unit; in chat mode one more sentence separator follows the
\* request, in block mode nothing.
C24_RequestText ==
    req.pc = "written" =>
        LET units == split(req.stdin, <<NL, NL>>)
        IN  /\ Len(units) = Len(req.sentences)
            /\ \A k \in 1..Len(req.sentences) :
                  IF req.sentences[k] = <<>> THEN units[k] = <<>>
                  ELSE LET lines == split(units[k], <<NL>>)
                       IN  /\ Len(lines) = Len(req.sentences[k])
                           /\ \A n \in 1..Len(req.sentences[k]) :
                                 LET cols == split(lines[n], <<"TAB">>)
                                     tok == req.tokens[req.sentences[k][n] + 1]
                                 IN  /\ Len(cols) = 6
                                     /\ cols[1] = <<ToString(n)>>
                                     /\ cols[2] = tok.word
                                     /\ cols[3] = <<"_">>
                                     /\ cols[4] = tok.pos
                                     /\ cols[5] = tok.pos
                                     /\ FeatsAsClaimed(tok.msd, cols[6])
            /\ req.written = IF req.keep THEN req.stdin \o <<NL, NL>>
                             ELSE req.stdin

\* a chat-mode request with two tokens in one sentence, a token in another
\* unit and a feature string with characters to replace
C24_Witness ==
    /\ req.pc = "written"
    /\ req.keep
    /\ \E k \in 1..Len(req.sentences) : Len(req.sentences[k]) >= 2
    /\ \E k \in 2..Len(req.sentences) : Len(req.sentences[k]) >= 1
    /\ \E t \in 1..Len(req.tokens) : "+" \in Range(req.tokens[t].msd)

----------------------------------------------------------------------------
(* Properties of the written annotations, checked under SpecOutputs.       *)

\* the tokens of a maltparse call for which the response has no row
WithoutRow ==
    {rows.sentences[k][j] :
        <<k, j>> \in {z \in UNION {{<<k, j>> : j \in 1..Len(rows.sentences[k])} :
                                     k \in 1..Len(rows.sentences)} :
                        z[1] > Len(rows.resp)
                           \/ z[2] > Len(rows.resp[z[1]])}}

\* C25: the three annotations of maltparse have one value for each token,
\* a token without a row keeping the empty value; the annotation of
\* annotate_words has one value for each token; the annotation of
\* annotate_doc has one value for each text, the k-th value that of the
\* k-th text.
C25_OneValuePerSpan ==
    /\ rows.pc \in {"parsed", "done"} =>
          \A f \in {"out_deprel", "out_dephead", "out_dephead_ref"} :
             /\ Len(rows.out[f]) = SumSeq(Sizes(rows.sentences))
             /\ \A t \in WithoutRow : rows.out[f][t + 1] = EmptyAttr
    /\ (WordsDone /\ words.status = "ok") =>
          /\ words.written
          /\ Len(words.per_token) = Len(words.tokens)
          /\ \A n \in 1..Len(words.per_token) : words.per_token[n].out # <<>>
    /\ (texts.pc = "done" /\ texts.status = "ok") =>
          /\ texts.written
          /\ Len(texts.out) = Len(texts.text_children)
          /\ \A k \in 1..Len(texts.out) :
                {texts.out[k][e][1] : e \in 1..Len(texts.out[k])}
                   \subseteq UNION {Range(texts.text_children[k][n]) :
                                      n \in 1..Len(texts.text_children[k])}

\* a maltparse call that wrote its annotations with a token left empty
C25_Witness ==
    /\ rows.pc = "done"
    /\ WithoutRow # {}
    /\ \E t \in WithoutRow : rows.out["out_deprel"][t + 1] = EmptyAttr

----------------------------------------------------------------------------
(* Properties of the shared lexicon, checked under SpecLex.                *)

\* C26: whatever calls have run and are running, the lexicon holds for
\* every sense id what it held at load, and the result of a call is the
\* result of that call on the lexicon as loaded.
C26_LexiconNeverModified ==
    /\ \A sid \in DOMAIN SwefnLexicon :
          lexi.heap[LexObj(sid)] = SwefnLexicon[sid]
    /\ \A w \in LexWorkers :
          lexi.w[w].pc = "returned" =>
             lexi.w[w].result =
                annotate_swefn(lexi.w[w].saldo_ids, SwefnLexicon,
                               lexi.w[w].connect_IDs, SCORESEP)

\* a worker has returned the classes of two known sense ids while the
\* other worker is inside its loop
C26_Witness ==
    \E w, v \in LexWorkers :
       /\ w # v
       /\ lexi.w[w].pc = "returned"
       /\ lexi.w[w].saldo_ids = <<<<"a">>, <<"b">>>>
       /\ ~lexi.w[w].connect_IDs
       /\ lexi.w[v].pc = "loop"
       /\ Len(lexi.w[v].todo) = 1
       /\ Len(lexi.w[v].saldo_ids) = 2

----------------------------------------------------------------------------
(* Properties of the plain-text importer, checked under SpecImp.           *)

\* C27: the stored text is the source text in the normal form that the
\* normalize argument names, the source text itself when the argument is
\* empty, and the text annotation is the one span from 0 to the length of
\* the stored text.
C27_NormalizesAsAsked ==
    imp.pc = "done" =>
        /\ imp.corpus_text =
              IF imp.normalize = "" THEN imp.text
              ELSE unicodedata_normalize(imp.normalize, imp.text)
        /\ imp.spans = <<<<0, Len(imp.corpus_text)>>>>

----------------------------------------------------------------------------
(* Properties of the warm-up and the chat-mode call, checked under         *)
(* SpecWarm.                                                                *)

\* C28: the warm-up reads the whole answer to its sentence, and every
\* chat-mode call comes to its end with all its rows read and no line left
\* in the pipe, whether the orphan unit has tokens or not.
C28_ChatFramingTerminates ==
    /\ boot.pc \in {"started", "done"} =>
          (/\ ~Hangs(boot.warmup_read)
           /\ (boot.pc = "started" => boot.unread = <<>>))
    /\ boot.pc = "done" =>
          /\ boot.status = "ok"
          /\ boot.unread = <<>>
          /\ Sizes(boot.malt_sentences) = boot.units

----------------------------------------------------------------------------
(* Properties of the processes of one process_dict, checked under Spec.    *)

\* the running processes that were started for the process_dict: the one
\* the caller put into it and the replacements maltparse spawned
LiveOfDict ==
    {p \in Pids : procs[p].status = "running"
                     /\ procs[p].by \in {"caller", "respawn"}}

\* C29: whatever calls have been made, at most one process started for the
\* process_dict is running, and it is the one the process_dict holds; a
\* process that failed the probe has been killed when its replacement runs;
\* and the process that served the most recent call with the process_dict
\* is the one the process_dict holds.
C29_OneLiveProcessPerDict ==
    /\ Cardinality(LiveOfDict) <= 1
    /\ LiveOfDict \subseteq {process_dict.process}
    /\ \A p \in Pids :
          (procs[p].by \in {"caller", "respawn"} /\ p # process_dict.process)
             => procs[p].killed
    /\ (call.useDict /\ call.attempts > 0) => call.pid = process_dict.process

\* a call found the process dead, spawned a replacement and was served by
\* it, and the replacement runs on
C29_Witness ==
    /\ call.useDict
    /\ call.spawned
    /\ call.outcome = "ok"
    /\ procs[process_dict.process].status = "running"
    /\ procs[process_dict.process].by = "respawn"

SyncArgumentEmpty ==
    \/ sync.corpus = ""
    \/ sync.host = ""
    \/ sync.target_datadir = <<>>
    \/ sync.target_registry = <<>>

\* C30: in sync_cwb the marker is written only after the rsync of the data
\* directory, the rsync of the registry file with its paths rewritten and the
\* removal of the temporary registry file have completed, in that order; and
\* when corpus, host, target_datadir or target_registry is empty, an error is
\* raised before any rsync or file write and the marker is not written.
C30_MarkerAfterSync ==
    sync.pc # "none" =>
       /\ \A i \in DOMAIN sync.log : sync.log[i] = SyncOrder[i]
       /\ sync.marker =>
             /\ sync.log = SyncOrder
             /\ sync.remote_data
             /\ sync.remote_registry =
                   [present |-> TRUE,
                    lines |-> fix_registry(sync.registry_file,
                                           sync.target_datadir)]
             /\ ~sync.tmp.present
       /\ SyncArgumentEmpty =>
             /\ sync.pc \in {"start", "raised"}
             /\ sync.pc = "raised" => sync.error \notin {"", "rsync", "open", "remove"}
             /\ sync.log = <<>>
             /\ ~sync.marker /\ ~sync.remote_data
             /\ ~sync.tmp.present /\ ~sync.remote_registry.present

C30_Witness ==
    /\ sync.pc = "done"
    /\ sync.marker
    /\ \E i \in DOMAIN sync.registry_file :
          sync.remote_registry.lines[i] # sync.registry_file[i]

====
